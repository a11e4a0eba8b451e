------------------------------ MODULE RaucBoot ------------------------------
(***************************************************************************)
(* The A/B boot protocol of the head unit: the four files on the vfat      *)
(* partition /boot, and the three shell scripts that read and write them   *)
(* while the firmware, RAUC and the power supply do what they like.        *)
(*                                                                         *)
(*   rauc-bootloader-backend.sh   called by RAUC during `rauc install`     *)
(*   rauc-boot-check.sh           runs before sysinit.target, counts boots *)
(*   rauc-mark-good.sh            the health guard, confirms or rolls back *)
(*                                                                         *)
(* mem is /boot as the running system sees it (the page cache), disk what  *)
(* the card holds: a script writes mem, `sync` copies it to disk, a power  *)
(* cut leaves for every unsynced file its old content, its new content or  *)
(* an empty file.                                                          *)
(***************************************************************************)
EXTENDS Naturals

CONSTANTS
  BootAttempts,     \* boot_attempts written by set-primary (BOOT_ATTEMPTS)
  Images,           \* what an installed rootfs may turn out to be
  TimeoutRollback,  \* RAUC_TIMEOUT_ROLLBACK_ENABLED of rauc-mark-good.sh
  CutWhileDirty,    \* may power be cut, or RAUC killed, before a sync?
  InstallWhen,      \* when an install may begin: "settled", after the guard
                    \* of this boot; "early", before it looked, when no update
                    \* is pending; "any", over a pending update too
  MaxCuts,          \* bound on power cuts
  Absent, Torn      \* no such file; an empty (truncated) file

Slot == {"A", "B"}

(***************************************************************************)
(* What a slot holds.  empty: nothing yet.  partial: an install began to   *)
(* write it.  dead: a rootfs that panics before sysinit.  loop: it reaches *)
(* user space and dies there (kernel crash, watchdog).  faulty:            *)
(* headunit.service fails or restarts in a loop.  hang: never stable and   *)
(* never failed.  good: weston and headunit become stable.                 *)
(***************************************************************************)
Image  == {"dead", "loop", "faulty", "hang", "good"}
Rootfs == Image \cup {"empty", "partial"}

Record  == [pending: Slot, prev: Slot, attempts: Nat]      \* rauc.state
Backend == [primary: Slot, marks: [Slot -> {"good", "bad"}]] \* rauc.bootstate

ASSUME RaucBootAssumption ==
  /\ BootAttempts \in Nat \ {0}
  /\ Images \subseteq Image
  /\ TimeoutRollback \in BOOLEAN
  /\ CutWhileDirty \in BOOLEAN
  /\ InstallWhen \in {"settled", "early", "any"}
  /\ MaxCuts \in Nat
  /\ Absent # Torn
  /\ {Absent, Torn} \cap Slot = {}
  /\ Absent \notin Record /\ Torn \notin Record
  /\ Absent \notin Backend /\ Torn \notin Backend

VARIABLES
  mem,        \* /boot as read and written by the scripts
  disk,       \* /boot as the next power-on will find it
  image,      \* the rootfs in each slot
  boot,       \* stage of the boot sequence
  booted,     \* root= of /proc/cmdline
  guard,      \* progress of rauc-mark-good.sh
  sourced,    \* prev_root as the guard sourced it when it started
  rauc,       \* progress of `rauc install` and of its set-primary call
  current,    \* current_slot of the set-primary call in progress
  confirmed,  \* history: slots whose present image the guard found stable
  trials,     \* history: boots the present pending update was given
  cuts,       \* history: power cuts so far
  exposed     \* history: /boot met one of the hazards named below, and the
              \* guard has not settled it since

fileVars == <<mem, disk>>
bootVars == <<boot, booted>>
guardVars == <<guard, sourced>>
raucVars == <<rauc, current>>
history == <<confirmed, trials, cuts, exposed>>
vars == <<fileVars, image, bootVars, guardVars, raucVars, history>>

BootFiles ==
  [cmdline: Slot \cup {Torn},
   prev:    Slot \cup {Absent, Torn},
   state:   Record \cup {Absent, Torn},
   bstate:  Backend \cup {Absent, Torn}]

BootStage == {"off", "panic", "check", "count_sync", "revert_sync", "user"}
GuardStage == {"wait", "watch", "mark_sync", "clear", "clear_sync",
               "revert_sync", "done"}
RaucStage == {"idle", "bad_sync", "write", "switch", "record", "publish",
              "publish_sync"}

TypeOK ==
  /\ mem \in BootFiles /\ disk \in BootFiles
  /\ image \in [Slot -> Rootfs]
  /\ boot \in BootStage /\ booted \in Slot \cup {Absent}
  /\ guard \in GuardStage /\ sourced \in Slot \cup {Absent}
  /\ rauc \in RaucStage /\ current \in Slot \cup {Absent}
  /\ confirmed \subseteq Slot
  /\ trials \in Nat /\ cuts \in 0..MaxCuts
  /\ exposed \in BOOLEAN

\* A freshly flashed card: rootfs-a populated, rootfs-b empty.
Init ==
  /\ mem = [cmdline |-> "A", prev |-> Absent, state |-> Absent, bstate |-> Absent]
  /\ disk = mem
  /\ image = [s \in Slot |-> IF s = "A" THEN "good" ELSE "empty"]
  /\ boot = "off" /\ booted = Absent
  /\ guard = "wait" /\ sourced = Absent
  /\ rauc = "idle" /\ current = Absent
  /\ confirmed = {"A"} /\ trials = 0 /\ cuts = 0
  /\ exposed = FALSE

Other(s) == IF s = "A" THEN "B" ELSE "A"

\* load_backend_state: the file when it holds values, else cmdline.txt, else A.
Loaded(files) ==
  IF files.bstate \in Backend THEN files.bstate
  ELSE [primary |-> IF files.cmdline = Torn THEN "A" ELSE files.cmdline,
        marks   |-> [s \in Slot |-> "good"]]

\* rauc.state names the slot that is running.
OnTrial(files, slot) == files.state \in Record /\ files.state.pending = slot

\* cmd_get_state: what RAUC is told of a slot.
GetState(files, slot) == Loaded(files).marks[slot]

\* Mutation: the rollback drops the record and leaves cmdline.txt as it is.
RevertedInName(files, prev_root) ==
  [files EXCEPT !.prev = Absent, !.state = Absent]

\* Mutation: the rollback leaves rauc.state behind.
RevertedKeepsRecord(files, prev_root) ==
  [files EXCEPT
     !.cmdline = IF files.prev # Absent THEN files.prev
                 ELSE IF @ = Torn THEN Torn ELSE prev_root,
     !.prev  = Absent]

(***************************************************************************)
(* The rollback both boot-check and the guard perform: put back the saved  *)
(* cmdline (whatever it holds) or, without one, write prev_root into the   *)
(* present one; then drop the backup and the pending record.               *)
(***************************************************************************)
Reverted(files, prev_root) ==
  [files EXCEPT
     !.cmdline = IF files.prev # Absent THEN files.prev
                 ELSE IF @ = Torn THEN Torn ELSE prev_root,
     !.prev  = Absent,
     !.state = Absent]

\* The processes of a running system end; /boot is what was on the card.
Halted ==
  /\ boot' = "off" /\ booted' = Absent
  /\ guard' = "wait" /\ sourced' = Absent
  /\ rauc' = "idle" /\ current' = Absent

Sync == disk' = mem /\ UNCHANGED mem

Target == Other(booted)

-----------------------------------------------------------------------------
(***************************************************************************)
(* The history variable exposed restricts no action.  It records that one  *)
(* of the four things happened that the scripts do not survive:            *)
(*   - a power cut tears the names on the card apart (TornApart);          *)
(*   - set-primary is stopped after it wrote cmdline.txt and before it     *)
(*     wrote rauc.state, by a reboot or with RAUC;                         *)
(*   - the guard takes the record of a newer install for a stale one;      *)
(*   - an install begins while an update is pending.                       *)
(* It lasts until a guard is done on a confirmed slot with nothing pending *)
(* (Settled).                                                              *)
(***************************************************************************)

\* What the firmware and boot-check decide by.
Names(files) == <<files.cmdline, files.state>>

\* A cut left cmdline.txt and rauc.state from different moments, or one of
\* them empty; or the half of set-primary that was written; or a record with
\* a backup that is not the one it was written with.
TornApart(files) ==
  \/ Names(files) \notin {Names(disk), Names(mem)}
  \/ rauc = "record" /\ files.cmdline = Target
  \/ files.state \in Record /\ files.prev \notin {files.state.prev, Absent}

NothingPending ==
  mem.cmdline = booted /\ mem.state = Absent /\ guard \in {"wait", "done"}

Settled(files) ==
  rauc = "idle" /\ booted \in confirmed /\ Names(files) = <<booted, Absent>>

-----------------------------------------------------------------------------
(***************************************************************************)
(* Firmware and kernel: root= of cmdline.txt decides what is booted.       *)
(***************************************************************************)
PowerOn ==
  /\ boot = "off"
  /\ \/ /\ disk.cmdline # Torn
        /\ booted' = disk.cmdline
        /\ boot' = IF image[disk.cmdline] \in {"empty", "partial", "dead"}
                     THEN "panic" ELSE "check"
     \/ /\ disk.cmdline = Torn
        /\ booted' = Absent
        /\ boot' = "panic"
  /\ UNCHANGED <<fileVars, image, guardVars, raucVars, history>>

\* No rauc.state: the unit's condition fails and boot continues.
CheckNothingPending ==
  /\ boot = "check" /\ mem.state = Absent
  /\ boot' = "user"
  /\ UNCHANGED <<fileVars, image, booted, guardVars, raucVars, history>>

\* The record names the other slot, or is empty: removed, without a sync.
CheckStale ==
  /\ boot = "check" /\ mem.state # Absent /\ ~OnTrial(mem, booted)
  /\ mem' = [mem EXCEPT !.state = Absent]
  /\ boot' = "user"
  /\ UNCHANGED <<disk, image, booted, guardVars, raucVars, history>>

\* This boot used the last attempt but one: roll back, sync, reboot -f.
CheckRollback ==
  /\ boot = "check" /\ OnTrial(mem, booted)
  /\ mem.state.attempts <= 1
  /\ mem' = Reverted(mem, mem.state.prev)
  /\ boot' = "revert_sync"
  /\ UNCHANGED <<disk, image, booted, guardVars, raucVars, history>>

CheckRollbackSync ==
  /\ boot = "revert_sync"
  /\ Sync /\ Halted
  /\ UNCHANGED <<image, history>>

\* Mutation: -lt for -le in the test of new_attempts.
CountsToZero ==
  /\ boot = "check" /\ OnTrial(mem, booted)
  /\ mem.state.attempts >= 1
  /\ mem' = [mem EXCEPT !.state.attempts = @ - 1]
  /\ boot' = "count_sync"
  /\ UNCHANGED <<disk, image, booted, guardVars, raucVars, history>>

\* Mutation: no test of new_attempts before the counter is rewritten.
CountUnguarded ==
  /\ boot = "check" /\ mem.state \in Record
  /\ mem' = [mem EXCEPT !.state.attempts = @ - 1]
  /\ boot' = "count_sync"
  /\ UNCHANGED <<disk, image, booted, guardVars, raucVars, history>>

CheckCount ==
  /\ boot = "check" /\ OnTrial(mem, booted)
  /\ mem.state.attempts > 1
  /\ mem' = [mem EXCEPT !.state.attempts = @ - 1]
  /\ boot' = "count_sync"
  /\ UNCHANGED <<disk, image, booted, guardVars, raucVars, history>>

CheckCountSync ==
  /\ boot = "count_sync"
  /\ Sync
  /\ boot' = "user"
  /\ trials' = trials + 1
  /\ UNCHANGED <<image, booted, guardVars, raucVars, confirmed, cuts, exposed>>

BootCheck ==
  CheckNothingPending \/ CheckStale \/ CheckRollback \/ CheckRollbackSync
    \/ CheckCount \/ CheckCountSync

-----------------------------------------------------------------------------
(***************************************************************************)
(* rauc-mark-good.sh, once weston and headunit were started.  The record   *)
(* is sourced once; the loop decides on what systemd reports afterwards.   *)
(***************************************************************************)
GuardSkip ==
  /\ boot = "user" /\ guard = "wait" /\ mem.state = Absent
  /\ guard' = "done"
  /\ exposed' = (exposed /\ ~(Settled(mem) /\ Settled(disk)))
  /\ UNCHANGED <<fileVars, image, bootVars, sourced, raucVars, confirmed, trials, cuts>>

GuardStale ==
  /\ boot = "user" /\ guard = "wait"
  /\ mem.state # Absent /\ ~OnTrial(mem, booted)
  /\ mem' = [mem EXCEPT !.state = Absent, !.prev = Absent]
  /\ guard' = "clear_sync"
  /\ exposed' = (exposed \/ mem.cmdline # booted)
  /\ UNCHANGED <<disk, image, bootVars, sourced, raucVars, confirmed, trials, cuts>>

GuardBegin ==
  /\ boot = "user" /\ guard = "wait" /\ OnTrial(mem, booted)
  /\ guard' = "watch"
  /\ sourced' = mem.state.prev
  /\ UNCHANGED <<fileVars, image, bootVars, raucVars, history>>

\* Stable for 12 s: `rauc status mark-good` calls set-state, or fails and
\* is ignored.
GuardStable ==
  /\ guard = "watch" /\ image[booted] = "good"
  /\ confirmed' = confirmed \cup {booted}
  /\ \/ /\ mem' = [mem EXCEPT !.bstate =
                     [Loaded(mem) EXCEPT !.marks[booted] = "good"]]
        /\ guard' = "mark_sync"
     \/ /\ guard' = "clear"
        /\ UNCHANGED mem
  /\ UNCHANGED <<disk, image, bootVars, sourced, raucVars, trials, cuts, exposed>>

GuardMarkSync ==
  /\ guard = "mark_sync"
  /\ Sync
  /\ guard' = "clear"
  /\ UNCHANGED <<image, bootVars, sourced, raucVars, history>>

\* rm -f rauc.state cmdline.prev.txt, whatever they hold by now.
GuardClear ==
  /\ guard = "clear"
  /\ mem' = [mem EXCEPT !.state = Absent, !.prev = Absent]
  /\ guard' = "clear_sync"
  /\ UNCHANGED <<disk, image, bootVars, sourced, raucVars, history>>

GuardClearSync ==
  /\ guard = "clear_sync"
  /\ Sync
  /\ guard' = "done"
  /\ exposed' = (exposed /\ ~Settled(mem))
  /\ UNCHANGED <<image, bootVars, sourced, raucVars, confirmed, trials, cuts>>

\* headunit failed or restarted six times, or the timeout if it is enabled.
GuardRollback ==
  /\ guard = "watch"
  /\ \/ image[booted] = "faulty"
     \/ TimeoutRollback /\ image[booted] = "hang"
  /\ mem' = Reverted(mem, sourced)
  /\ guard' = "revert_sync"
  /\ UNCHANGED <<disk, image, bootVars, sourced, raucVars, history>>

GuardRollbackSync ==
  /\ guard = "revert_sync"
  /\ Sync /\ Halted
  /\ UNCHANGED <<image, history>>

Guard ==
  GuardSkip \/ GuardStale \/ GuardBegin \/ GuardStable \/ GuardMarkSync
    \/ GuardClear \/ GuardClearSync \/ GuardRollback \/ GuardRollbackSync

-----------------------------------------------------------------------------
(***************************************************************************)
(* `rauc install` on the slot that is not running (RAUC itself is          *)
(* external): mark it bad, write it, then make it primary.                 *)
(***************************************************************************)
MayInstall ==
  \/ InstallWhen = "any"
  \/ /\ mem.cmdline = booted
     /\ \/ guard = "done"
        \/ InstallWhen = "early" /\ guard = "wait" /\ mem.state = Absent

InstallBegin ==
  /\ boot = "user" /\ rauc = "idle"
  /\ MayInstall
  /\ mem' = [mem EXCEPT !.bstate =
               [Loaded(mem) EXCEPT !.marks[Target] = "bad"]]
  /\ rauc' = "bad_sync"
  /\ exposed' = (exposed \/ ~NothingPending)
  /\ UNCHANGED <<disk, image, bootVars, guardVars, current, confirmed, trials, cuts>>

\* Mutation: set-state without its sync.
InstallBadUnsynced ==
  /\ rauc = "bad_sync"
  /\ rauc' = "write"
  /\ image' = [image EXCEPT ![Target] = "partial"]
  /\ confirmed' = confirmed \ {Target}
  /\ UNCHANGED <<fileVars, bootVars, guardVars, current, trials, cuts, exposed>>

InstallBadSync ==
  /\ rauc = "bad_sync"
  /\ Sync
  /\ rauc' = "write"
  /\ image' = [image EXCEPT ![Target] = "partial"]
  /\ confirmed' = confirmed \ {Target}
  /\ UNCHANGED <<bootVars, guardVars, current, trials, cuts, exposed>>

InstallWritten ==
  /\ rauc = "write"
  /\ \E h \in Images : image' = [image EXCEPT ![Target] = h]
  /\ rauc' = "switch"
  /\ UNCHANGED <<fileVars, bootVars, guardVars, current, history>>

\* Mutation: prev_root is read after cmdline.txt was rewritten, and no backup
\* is taken.
SwitchThenRead ==
  /\ rauc = "switch"
  /\ current' = Target
  /\ mem' = [mem EXCEPT !.cmdline = Target]
  /\ rauc' = "record"
  /\ UNCHANGED <<disk, image, bootVars, guardVars, history>>

(***************************************************************************)
(* cmd_set_primary: back up and rewrite cmdline.txt unless it names the    *)
(* target already (an empty one counts as the target) ...                  *)
(***************************************************************************)
SetPrimarySwitch ==
  /\ rauc = "switch"
  /\ current' = IF mem.cmdline = Torn THEN Target ELSE mem.cmdline
  /\ mem' = IF current' = Target THEN mem
            ELSE [mem EXCEPT !.prev = mem.cmdline, !.cmdline = Target]
  /\ rauc' = "record"
  /\ UNCHANGED <<disk, image, bootVars, guardVars, history>>

\* ... write rauc.state ...
SetPrimaryRecord ==
  /\ rauc = "record"
  /\ mem' = [mem EXCEPT !.state =
               [pending |-> Target, prev |-> current, attempts |-> BootAttempts]]
  /\ rauc' = "publish"
  /\ trials' = 0
  /\ UNCHANGED <<disk, image, bootVars, guardVars, current, confirmed, cuts, exposed>>

\* ... write rauc.bootstate, and sync all of it.
SetPrimaryPublish ==
  /\ rauc = "publish"
  /\ mem' = [mem EXCEPT !.bstate =
               [primary |-> Target,
                marks |-> [Loaded(mem).marks EXCEPT ![Target] = "good"]]]
  /\ rauc' = "publish_sync"
  /\ UNCHANGED <<disk, image, bootVars, guardVars, current, history>>

SetPrimarySync ==
  /\ rauc = "publish_sync"
  /\ Sync
  /\ rauc' = "idle" /\ current' = Absent
  /\ UNCHANGED <<image, bootVars, guardVars, history>>

\* The bundle is refused or /boot cannot be mounted; or RAUC is killed.
InstallFails ==
  /\ rauc \in {"write", "switch"} \/ (CutWhileDirty /\ rauc # "idle")
  /\ rauc' = "idle" /\ current' = Absent
  /\ exposed' = (exposed \/ rauc = "record")
  /\ UNCHANGED <<fileVars, image, bootVars, guardVars, confirmed, trials, cuts>>

Install ==
  InstallBegin \/ InstallBadSync \/ InstallWritten \/ SetPrimarySwitch
    \/ SetPrimaryRecord \/ SetPrimaryPublish \/ SetPrimarySync \/ InstallFails

-----------------------------------------------------------------------------
(***************************************************************************)
(* The end of a running system.                                            *)
(***************************************************************************)
MayStop == CutWhileDirty \/ mem = disk

\* systemctl reboot: scripts are killed where they are, /boot is unmounted.
Reboot ==
  /\ boot = "user" /\ MayStop
  /\ Sync /\ Halted
  /\ exposed' = (exposed \/ rauc = "record")
  /\ UNCHANGED <<image, confirmed, trials, cuts>>

\* What a power cut leaves of one file whose last sync held old.
Survives(old, new) ==
  {old, new} \cup (IF new \in {old, Absent} THEN {} ELSE {Torn})

PowerCut ==
  /\ boot \notin {"off", "panic"} /\ MayStop
  /\ cuts < MaxCuts
  /\ cuts' = cuts + 1
  /\ \E c \in Survives(disk.cmdline, mem.cmdline),
        p \in Survives(disk.prev, mem.prev),
        s \in Survives(disk.state, mem.state),
        b \in Survives(disk.bstate, mem.bstate) :
       disk' = [cmdline |-> c, prev |-> p, state |-> s, bstate |-> b]
  /\ mem' = disk'
  /\ Halted
  /\ exposed' = (exposed \/ TornApart(disk'))
  /\ UNCHANGED <<image, confirmed, trials>>

\* A rootfs that dies by itself in user space restarts the board.
CrashReboot ==
  /\ boot = "user" /\ image[booted] = "loop" /\ MayStop
  /\ mem' = disk /\ UNCHANGED disk
  /\ Halted
  /\ UNCHANGED <<image, history>>

\* Someone pulls the plug of a board that shows nothing.
PowerCycle ==
  /\ boot = "panic"
  /\ Halted
  /\ UNCHANGED <<fileVars, image, history>>

\* The kernel writes dirty pages back while no script is at work.
Writeback ==
  /\ boot = "user" /\ mem # disk
  /\ guard \in {"wait", "watch", "done"} /\ rauc \in {"idle", "write"}
  /\ Sync
  /\ UNCHANGED <<image, bootVars, guardVars, raucVars, history>>

Next ==
  \/ PowerOn \/ BootCheck \/ Guard \/ Install
  \/ Reboot \/ PowerCut \/ CrashReboot \/ PowerCycle \/ Writeback

Spec == Init /\ [][Next]_vars

(***************************************************************************)
(* The boot sequence and the guard run by themselves; a board that crashes *)
(* or shows nothing is restarted; an install, a reboot or a power cut need *)
(* never come.                                                             *)
(***************************************************************************)
Fairness ==
  /\ WF_vars(PowerOn) /\ WF_vars(BootCheck) /\ WF_vars(Guard)
  /\ WF_vars(CrashReboot) /\ WF_vars(PowerCycle) /\ WF_vars(Writeback)

FairSpec == Spec /\ Fairness

-----------------------------------------------------------------------------
(***************************************************************************)
(* Properties.                                                             *)
(***************************************************************************)

\* A pending update is booted at most BootAttempts - 1 times before
\* rauc-boot-check.sh takes it back: what rauc.state still allows and what
\* was already used never exceed boot_attempts, whatever power cuts lose.
TrialBudget ==
  mem.state \in Record =>
    /\ mem.state.attempts \in 1..BootAttempts
    /\ mem.state.attempts + trials <= BootAttempts

\* The slot a rollback would make active.
Fallback(files) == IF files.prev # Absent THEN files.prev ELSE files.state.prev

\* While a slot runs that the guard has not yet found stable, rauc.state is
\* there to count its boots and the rollback leads to the other slot, whose
\* rootfs was found stable: no update runs without a way back, unless /boot
\* met one of the four hazards above since a guard last settled it.
TrialProtected ==
  ~exposed /\ boot = "user" /\ booted \notin confirmed /\ guard \in {"wait", "watch"} =>
    /\ OnTrial(mem, booted)
    /\ Fallback(mem) \in confirmed \ {booted}

\* A slot with a half-written rootfs is shut, wherever installs, rollbacks and
\* power cuts meet: cmdline.txt on the card does not name it, and its state on
\* the card is bad, for set-state reaches the card before the slot is written.
NeverBootsHalfWritten ==
  \A s \in Slot : image[s] = "partial" =>
    disk.cmdline # s /\ GetState(disk, s) = "bad"

\* A trial of a rootfs that reaches user space ends: a crashing one is
\* counted down by boot-check, a failing one rolled back by the guard, a
\* stable one confirmed, and the device runs a confirmed slot.
TrialEnds ==
  (boot = "user" /\ booted \notin confirmed
     /\ image[booted] \in {"loop", "faulty", "good"})
    ~> (boot = "user" /\ booted \in confirmed)

\* The pending update that the files describe.
TrialOf(files) ==
  IF files.state \in Record
  THEN [slot     |-> files.state.pending,
        fallback |-> Fallback(files),
        left     |-> files.state.attempts]
  ELSE Absent

\* The files on the card as the atomic protocol of SlotUpdate: the three
\* scripts implement it when power is only cut while /boot is in sync and
\* installs wait for the guard.
Update == INSTANCE SlotUpdate WITH
  Slots   <- Slot,
  First   <- "A",
  Tries   <- BootAttempts,
  NoTrial <- Absent,
  active  <- disk.cmdline,
  trial   <- TrialOf(disk),
  proven  <- confirmed

\* What SlotUpdate asks of its constants; of Absent, that it is no trial.
ASSUME UpdateAssumption == Update!WellFormed

RefinesSlotUpdate == Update!Spec

\* ... and whenever power is cut, RAUC killed and an install begun, they do
\* so but for the steps that expose /boot and those until it is settled.
RefinesUnlessExposed ==
  Update!Init /\ [][exposed \/ exposed' \/ Update!Next]_Update!vars

\* rauc-mark-good.sh: "If stable: mark slot good and clear pending state".
\* The pending state it clears is the one of the slot it found stable.
ClearsOwnRecord ==
  [][guard = "clear" /\ guard' = "clear_sync" /\ mem.state \in Record
       => mem.state.pending = booted]_vars
=============================================================================
