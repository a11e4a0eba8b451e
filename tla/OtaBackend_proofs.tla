------------------------ MODULE OtaBackend_proofs ------------------------
(***************************************************************************)
(* One worker at a time, and only verified bundles for rauc, for every set *)
(* of commands.  The lock alone does not give this: it is held only while  *)
(* a command is accepted.  What carries the proof is StatusIsOfJob: while  *)
(* a worker is anywhere in _run the phase is active and the job is its     *)
(* own, so no other command is accepted, no other worker cleans up its     *)
(* bundle, and nobody else clears the phase.  The second part rests on it: *)
(* what is reported, what the logs may name, when an install may begin.    *)
(* A rauc that outlives its process is nobody's: the proof never needs     *)
(* rauc and a worker to belong together unless the worker waits for it.    *)
(***************************************************************************)
EXTENDS OtaBackend, TLAPS

Checked == {"fetch", "verify", "apply", "install", "installing"}
Verified == {"apply", "install", "installing"}

\* What a worker has behind it, and that rauc works for it as long as it
\* waits.  A rauc at work without a worker outlived the process.
Stages ==
  /\ \A c \in Commands :
       /\ worker[c] \in Checked => c \in Signed
       /\ worker[c] \in Verified => bundle[c] = "sound"
  /\ rauc \in Commands \cup {Nothing}
  /\ \A c \in Commands : worker[c] = "installing" => rauc = c

Types ==
  /\ worker \in [Commands -> Stage]
  /\ bundle \in [Commands -> {"none", "sound", "damaged"}]

IInv == Types /\ StatusIsOfJob /\ Stages

LEMMA Initially == Init => IInv
BY OtaBackendAssumption
   DEF Init, IInv, Types, Stage, StatusIsOfJob, Busy, Stages, Checked, Verified

\* A worker that moves leaves every other one alone: there is none.
LEMMA OthersIdle ==
  ASSUME IInv, NEW c \in Commands, Busy(c)
  PROVE  /\ job = c /\ phase \in Active
         /\ \A d \in Commands \ {c} : worker[d] = "idle"
BY DEF IInv, StatusIsOfJob, Busy

\* c goes to a stage that suits what is known of it.
Moves(c, stage) ==
  /\ worker' = [worker EXCEPT ![c] = stage]
  /\ bundle' \in [Commands -> {"none", "sound", "damaged"}]
  /\ stage # "idle" => job' = c /\ phase' \in Active
  /\ stage \in Checked => c \in Signed
  /\ stage \in Verified => bundle'[c] = "sound"
  /\ rauc' \in Commands \cup {Nothing}
  /\ stage = "installing" => rauc' = c

LEMMA StepOf ==
  ASSUME IInv, NEW c \in Commands, Busy(c), NEW stage \in Stage,
         Moves(c, stage)
  PROVE  IInv'
<1>1. Types'
  BY DEF IInv, Types, Moves
<1>2. /\ worker'[c] = stage
      /\ \A d \in Commands \ {c} : worker'[d] = "idle"
  BY OthersIdle DEF IInv, Types, Moves
<1>3. StatusIsOfJob'
  BY <1>2 DEF StatusIsOfJob, Busy, Moves
<1>4. Stages'
  BY <1>2 DEF Stages, Checked, Verified, Moves
<1> QED BY <1>1, <1>3, <1>4 DEF IInv

LEMMA Inductive == IInv /\ [Next]_vars => IInv'
<1> SUFFICES ASSUME IInv, [Next]_vars PROVE IInv'
  OBVIOUS
<1> USE DEF Types, Stages
<1>a. ASSUME NEW c \in Commands, Start(c) PROVE IInv'
  <2>1. \A d \in Commands : worker[d] = "idle"
    BY <1>a DEF IInv, StatusIsOfJob, Busy, Start
  <2>2. /\ worker' = [worker EXCEPT ![c] = "spawn"] /\ job' = c
        /\ phase' = "DOWNLOAD" /\ UNCHANGED <<bundle, rauc>>
    BY <1>a DEF Start, Accept, device
  <2> QED BY <2>1, <2>2
          DEF IInv, StatusIsOfJob, Busy, Active, Stage, Checked, Verified
<1>b. CASE \/ \E c \in Commands : Refuse(c)
           \/ DiskChanges \/ UNCHANGED vars
  <2>1. UNCHANGED <<worker, bundle, rauc, job, phase>>
    BY <1>b DEF Refuse, DiskChanges, vars, stateVars, device
  <2> QED BY <2>1 DEF IInv, StatusIsOfJob, Busy
<1>c. CASE Reboot \/ Restart
  <2>1. /\ worker' = [c \in Commands |-> "idle"] /\ rauc' \in {rauc, Nothing}
        /\ UNCHANGED bundle
    BY <1>c DEF Reboot, Restart, Fresh
  <2> QED BY <2>1 DEF IInv, StatusIsOfJob, Busy, Stage, Checked, Verified
<1>d. CASE OrphanEnds
  <2>1. /\ rauc # Nothing /\ rauc \in Commands /\ worker[rauc] # "installing"
        /\ rauc' = Nothing /\ UNCHANGED <<worker, bundle, job, phase>>
    BY <1>d DEF OrphanEnds, stateVars, IInv
  <2>2. \A c \in Commands : worker[c] # "installing"
    BY <2>1 DEF IInv
  <2> QED BY <2>1, <2>2 DEF IInv, StatusIsOfJob, Busy
<1>1. ASSUME NEW c \in Commands, Spawn(c) PROVE IInv'
  <2>1. worker[c] = "spawn"
    BY <1>1, OthersIdle DEF Spawn, IInv, Busy, Checked, Verified
  <2>2. Busy(c) /\ job = c /\ phase \in Active
    BY <2>1, OthersIdle DEF Busy
  <2>3. Moves(c, "start")
    BY <1>1, <2>1, <2>2
       DEF Spawn, Moves, IInv, Active, Checked, Verified, stateVars, device
  <2> QED BY <2>2, <2>3, StepOf DEF Stage
<1>2. ASSUME NEW c \in Commands, SpawnFails(c) PROVE IInv'
  <2>1. worker[c] = "spawn"
    BY <1>2, OthersIdle DEF SpawnFails, IInv, Busy, Checked, Verified
  <2>2. Busy(c) /\ job = c /\ phase \in Active
    BY <2>1, OthersIdle DEF Busy
  <2>3. Moves(c, "idle")
    BY <1>2, <2>1, <2>2
       DEF SpawnFails, Moves, IInv, Active, Checked, Verified, stateVars, device
  <2> QED BY <2>2, <2>3, StepOf DEF Stage
<1>3. ASSUME NEW c \in Commands, DownloadStart(c) PROVE IInv'
  <2>1. worker[c] = "start"
    BY <1>3, OthersIdle DEF DownloadStart, IInv, Busy, Checked, Verified
  <2>2. Busy(c) /\ job = c /\ phase \in Active
    BY <2>1, OthersIdle DEF Busy
  <2>3. Moves(c, "check") \/ Moves(c, "internal")
    BY <1>3, <2>1, <2>2
       DEF DownloadStart, Written, Logs, Raises, Goto, Tell, Moves, IInv, Active, Checked, Verified, stateVars, device
  <2> QED BY <2>2, <2>3, StepOf DEF Stage
<1>4. ASSUME NEW c \in Commands, CheckSignature(c) PROVE IInv'
  <2>1. worker[c] = "check"
    BY <1>4, OthersIdle DEF CheckSignature, IInv, Busy, Checked, Verified
  <2>2. Busy(c) /\ job = c /\ phase \in Active
    BY <2>1, OthersIdle DEF Busy
  <2>3. Moves(c, "fetch") \/ Moves(c, "report")
    BY <1>4, <2>1, <2>2
       DEF CheckSignature, Fails, Goto, Moves, IInv, Active, Checked, Verified, stateVars, device
  <2> QED BY <2>2, <2>3, StepOf DEF Stage
<1>5. ASSUME NEW c \in Commands, Download(c) PROVE IInv'
  <2>1. worker[c] = "fetch" /\ c \in Signed
    BY <1>5, OthersIdle DEF Download, IInv, Busy, Checked, Verified
  <2>2. Busy(c) /\ job = c /\ phase \in Active
    BY <2>1, OthersIdle DEF Busy
  <2>3. Moves(c, "verify") \/ Moves(c, "report")
    BY <1>5, <2>1, <2>2
       DEF Download, Fails, Goto, Moves, IInv, Active, Checked, Verified, stateVars, device
  <2> QED BY <2>2, <2>3, StepOf DEF Stage
<1>6. ASSUME NEW c \in Commands, Verify(c) PROVE IInv'
  <2>1. worker[c] = "verify" /\ c \in Signed
    BY <1>6, OthersIdle DEF Verify, IInv, Busy, Checked, Verified
  <2>2. Busy(c) /\ job = c /\ phase \in Active
    BY <2>1, OthersIdle DEF Busy
  <2>3. Moves(c, "apply") \/ Moves(c, "report")
    BY <1>6, <2>1, <2>2
       DEF Verify, Fails, Goto, Moves, IInv, Active, Checked, Verified, stateVars, device
  <2> QED BY <2>2, <2>3, StepOf DEF Stage
<1>7. ASSUME NEW c \in Commands, ApplyStart(c) PROVE IInv'
  <2>1. worker[c] = "apply" /\ c \in Signed /\ bundle[c] = "sound"
    BY <1>7, OthersIdle DEF ApplyStart, IInv, Busy, Checked, Verified
  <2>2. Busy(c) /\ job = c /\ phase \in Active
    BY <2>1, OthersIdle DEF Busy
  <2>3. Moves(c, "install") \/ Moves(c, "internal")
    BY <1>7, <2>1, <2>2
       DEF ApplyStart, Written, Logs, Raises, Goto, Tell, Moves, IInv, Active, Checked, Verified, stateVars, device
  <2> QED BY <2>2, <2>3, StepOf DEF Stage
<1>8. ASSUME NEW c \in Commands, InstallBegins(c) PROVE IInv'
  <2>1. worker[c] = "install" /\ c \in Signed /\ bundle[c] = "sound"
    BY <1>8, OthersIdle DEF InstallBegins, IInv, Busy, Checked, Verified
  <2>2. Busy(c) /\ job = c /\ phase \in Active
    BY <2>1, OthersIdle DEF Busy
  <2>3. Moves(c, "installing")
    BY <1>8, <2>1, <2>2
       DEF InstallBegins, Goto, Moves, IInv, Active, Checked, Verified, stateVars, device
  <2> QED BY <2>2, <2>3, StepOf DEF Stage
<1>9. ASSUME NEW c \in Commands, InstallRefused(c) PROVE IInv'
  <2>1. worker[c] = "install" /\ c \in Signed /\ bundle[c] = "sound"
    BY <1>9, OthersIdle DEF InstallRefused, IInv, Busy, Checked, Verified
  <2>2. Busy(c) /\ job = c /\ phase \in Active
    BY <2>1, OthersIdle DEF Busy
  <2>3. Moves(c, "report")
    BY <1>9, <2>1, <2>2
       DEF InstallRefused, Fails, Goto, Moves, IInv, Active, Checked, Verified, stateVars, device
  <2> QED BY <2>2, <2>3, StepOf DEF Stage
<1>10. ASSUME NEW c \in Commands, InstallEnds(c) PROVE IInv'
  <2>1. worker[c] = "installing"
    BY <1>10, OthersIdle DEF InstallEnds, IInv, Busy, Checked, Verified
  <2>2. Busy(c) /\ job = c /\ phase \in Active
    BY <2>1, OthersIdle DEF Busy
  <2>3. Moves(c, "post") \/ Moves(c, "report")
    BY <1>10, <2>1, <2>2
       DEF InstallEnds, Fails, Goto, Moves, IInv, Active, Checked, Verified, stateVars, device
  <2> QED BY <2>2, <2>3, StepOf DEF Stage
<1>11. ASSUME NEW c \in Commands, PostWriteVerify(c) PROVE IInv'
  <2>1. worker[c] = "post"
    BY <1>11, OthersIdle DEF PostWriteVerify, IInv, Busy, Checked, Verified
  <2>2. Busy(c) /\ job = c /\ phase \in Active
    BY <2>1, OthersIdle DEF Busy
  <2>3. Moves(c, "finish") \/ Moves(c, "report")
    BY <1>11, <2>1, <2>2
       DEF PostWriteVerify, Fails, Goto, Moves, IInv, Active, Checked, Verified, stateVars, device
  <2> QED BY <2>2, <2>3, StepOf DEF Stage
<1>12. ASSUME NEW c \in Commands, ApplyOk(c) PROVE IInv'
  <2>1. worker[c] = "finish"
    BY <1>12, OthersIdle DEF ApplyOk, IInv, Busy, Checked, Verified
  <2>2. Busy(c) /\ job = c /\ phase \in Active
    BY <2>1, OthersIdle DEF Busy
  <2>3. Moves(c, "reboot") \/ Moves(c, "internal")
    BY <1>12, <2>1, <2>2
       DEF ApplyOk, Written, Logs, Raises, Goto, Moves, IInv, Active, Checked, Verified, stateVars, device
  <2> QED BY <2>2, <2>3, StepOf DEF Stage
<1>13. ASSUME NEW c \in Commands, RebootAsked(c) PROVE IInv'
  <2>1. worker[c] = "reboot"
    BY <1>13, OthersIdle DEF RebootAsked, IInv, Busy, Checked, Verified
  <2>2. Busy(c) /\ job = c /\ phase \in Active
    BY <2>1, OthersIdle DEF Busy
  <2>3. Moves(c, "idle")
    BY <1>13, <2>1, <2>2
       DEF RebootAsked, Goto, Tell, Moves, IInv, Active, Checked, Verified, stateVars, device
  <2> QED BY <2>2, <2>3, StepOf DEF Stage
<1>14. ASSUME NEW c \in Commands, CommitStart(c) PROVE IInv'
  <2>1. worker[c] = "reboot"
    BY <1>14, OthersIdle DEF CommitStart, IInv, Busy, Checked, Verified
  <2>2. Busy(c) /\ job = c /\ phase \in Active
    BY <2>1, OthersIdle DEF Busy
  <2>3. Moves(c, "commit") \/ Moves(c, "internal")
    BY <1>14, <2>1, <2>2
       DEF CommitStart, Written, Logs, Raises, Goto, Tell, Moves, IInv, Active, Checked, Verified, stateVars, device
  <2> QED BY <2>2, <2>3, StepOf DEF Stage
<1>15. ASSUME NEW c \in Commands, CommitOk(c) PROVE IInv'
  <2>1. worker[c] = "commit"
    BY <1>15, OthersIdle DEF CommitOk, IInv, Busy, Checked, Verified
  <2>2. Busy(c) /\ job = c /\ phase \in Active
    BY <2>1, OthersIdle DEF Busy
  <2>3. Moves(c, "idle") \/ Moves(c, "internal")
    BY <1>15, <2>1, <2>2
       DEF CommitOk, Written, Logs, Raises, Goto, Tell, Moves, IInv, Active, Checked, Verified, stateVars, device
  <2> QED BY <2>2, <2>3, StepOf DEF Stage
<1>16. ASSUME NEW c \in Commands, Report(c) PROVE IInv'
  <2>1. worker[c] = "report"
    BY <1>16, OthersIdle DEF Report, IInv, Busy, Checked, Verified
  <2>2. Busy(c) /\ job = c /\ phase \in Active
    BY <2>1, OthersIdle DEF Busy
  <2>3. Moves(c, "idle") \/ Moves(c, "internal")
    BY <1>16, <2>1, <2>2
       DEF Report, Written, Logs, Raises, Goto, Tell, Moves, IInv, Active, Checked, Verified, stateVars, device
  <2> QED BY <2>2, <2>3, StepOf DEF Stage
<1>17. ASSUME NEW c \in Commands, ReportInternal(c) PROVE IInv'
  <2>1. worker[c] = "internal"
    BY <1>17, OthersIdle DEF ReportInternal, IInv, Busy, Checked, Verified
  <2>2. Busy(c) /\ job = c /\ phase \in Active
    BY <2>1, OthersIdle DEF Busy
  <2>3. Moves(c, "idle")
    BY <1>17, <2>1, <2>2
       DEF ReportInternal, Logs, Goto, Tell, Moves, IInv, Active, Checked, Verified, stateVars, device
  <2> QED BY <2>2, <2>3, StepOf DEF Stage
<1> QED
  BY <1>a, <1>b, <1>c, <1>d, <1>1, <1>2, <1>3, <1>4, <1>5, <1>6, <1>7, <1>8, <1>9,
     <1>10, <1>11, <1>12, <1>13, <1>14, <1>15, <1>16, <1>17
     DEF Next, Run

\* The job and the phase that /ota/status shows are the running worker's, and
\* so two commands never run at the same time.
THEOREM Exclusive ==
  Spec => [](StatusIsOfJob
               /\ \A c, d \in Commands : Busy(c) /\ Busy(d) => c = d)
<1>1. IInv => StatusIsOfJob
  BY DEF IInv
<1>2. StatusIsOfJob => \A c, d \in Commands : Busy(c) /\ Busy(d) => c = d
  BY DEF StatusIsOfJob
<1> QED BY Initially, Inductive, <1>1, <1>2, PTL DEF Spec

\* rauc is only ever given a bundle that was verified, of a signed command,
\* whatever became of the process that had started an earlier install.
THEOREM OnlyVerified == Spec => InstallsVerified
<1>1. IInv /\ [Next]_vars =>
        [rauc' \notin {rauc, Nothing} =>
           rauc' \in Signed /\ bundle[rauc'] = "sound"]_vars
  <2> SUFFICES ASSUME IInv, Next, rauc' \notin {rauc, Nothing}
               PROVE  rauc' \in Signed /\ bundle[rauc'] = "sound"
    BY DEF vars, device
  <2>1. PICK c \in Commands : InstallBegins(c)
    BY DEF Next, Run, Start, Accept, Refuse, Spawn, SpawnFails, DownloadStart,
           CheckSignature, Download, Verify, ApplyStart, InstallRefused,
           InstallEnds, PostWriteVerify, ApplyOk, RebootAsked, CommitStart,
           CommitOk, Report, ReportInternal, Reboot, Restart, OrphanEnds,
           DiskChanges, device
  <2> QED BY <2>1 DEF InstallBegins, IInv, Stages, Checked, Verified
<1> QED BY Initially, Inductive, <1>1, PTL DEF Spec, InstallsVerified

-----------------------------------------------------------------------------
(***************************************************************************)
(* What the device reports and boots.                                      *)
(***************************************************************************)

\* What a worker has installed and verified.
Installed == {"finish", "reboot", "commit"}

\* A worker that says a version is installed has installed it, and no log names
\* another command's version: what a restart infers was applied too.
OnlyApplied ==
  /\ \A c \in Commands : worker[c] \in Installed => c \in applied
  /\ current \in Commands => current \in applied
  /\ logged \in Commands => logged \in applied

\* A slot was switched and its job neither failed nor died after that: it is on
\* its way to the reboot, or waits for it in a phase that refuses every command.
RebootComes ==
  rebootAfterApply /\ switched # Nothing /\ ~abandoned =>
    /\ phase \in Active
    /\ \A c \in Commands : worker[c] \in {"idle", "post", "finish", "reboot"}

LEMMA AppliedInductive ==
  ASSUME IInv, OnlyApplied, [Next]_vars, SystemVersion \notin Commands
  PROVE  OnlyApplied'
<1> USE OtaBackendAssumption DEF IInv, Types, OnlyApplied, Installed
<1>1. ASSUME NEW c \in Commands, Start(c) PROVE OnlyApplied'
  BY <1>1 DEF Start, Accept
<1>2. ASSUME NEW c \in Commands, Refuse(c) PROVE OnlyApplied'
  BY <1>2 DEF Refuse, stateVars
<1>3. ASSUME NEW c \in Commands, Spawn(c) PROVE OnlyApplied'
  BY <1>3 DEF Spawn, stateVars
<1>4. ASSUME NEW c \in Commands, SpawnFails(c) PROVE OnlyApplied'
  BY <1>4 DEF SpawnFails
<1>5. ASSUME NEW c \in Commands, DownloadStart(c) PROVE OnlyApplied'
  BY <1>5 DEF DownloadStart, Written, Raises, Logs, Goto, Tell
<1>6. ASSUME NEW c \in Commands, CheckSignature(c) PROVE OnlyApplied'
  BY <1>6 DEF CheckSignature, Fails, Goto, stateVars
<1>7. ASSUME NEW c \in Commands, Download(c) PROVE OnlyApplied'
  BY <1>7 DEF Download, Fails, Goto, stateVars
<1>8. ASSUME NEW c \in Commands, Verify(c) PROVE OnlyApplied'
  BY <1>8 DEF Verify, Fails, Goto, stateVars
<1>9. ASSUME NEW c \in Commands, ApplyStart(c) PROVE OnlyApplied'
  BY <1>9 DEF ApplyStart, Written, Raises, Logs, Goto, Tell
<1>10. ASSUME NEW c \in Commands, InstallBegins(c) PROVE OnlyApplied'
  BY <1>10 DEF InstallBegins, Goto, stateVars
<1>11. ASSUME NEW c \in Commands, InstallRefused(c) PROVE OnlyApplied'
  BY <1>11 DEF InstallRefused, Fails, Goto
<1>12. ASSUME NEW c \in Commands, InstallEnds(c) PROVE OnlyApplied'
  BY <1>12 DEF InstallEnds, Fails, Goto, stateVars
<1>13. ASSUME NEW c \in Commands, PostWriteVerify(c) PROVE OnlyApplied'
  BY <1>13 DEF PostWriteVerify, Fails, Goto, stateVars
<1>14. ASSUME NEW c \in Commands, ApplyOk(c) PROVE OnlyApplied'
  BY <1>14 DEF ApplyOk, Written, Raises, Logs, Goto
<1>15. ASSUME NEW c \in Commands, RebootAsked(c) PROVE OnlyApplied'
  BY <1>15 DEF RebootAsked, Goto, Tell, stateVars
<1>16. ASSUME NEW c \in Commands, CommitStart(c) PROVE OnlyApplied'
  BY <1>16 DEF CommitStart, Written, Raises, Logs, Goto, Tell
<1>17. ASSUME NEW c \in Commands, CommitOk(c) PROVE OnlyApplied'
  BY <1>17 DEF CommitOk, Written, Raises, Logs, Goto, Tell
<1>18. ASSUME NEW c \in Commands, Report(c) PROVE OnlyApplied'
  BY <1>18 DEF Report, Written, Raises, Logs, Goto, Tell
<1>19. ASSUME NEW c \in Commands, ReportInternal(c) PROVE OnlyApplied'
  BY <1>19 DEF ReportInternal, Logs, Goto, Tell
<1>a. CASE Reboot \/ Restart
  BY <1>a DEF Reboot, Restart, Fresh, Inferred
<1>e. CASE OrphanEnds
  BY <1>e DEF OrphanEnds, stateVars
<1>b. CASE DiskChanges
  BY <1>b DEF DiskChanges, stateVars
<1>c. CASE UNCHANGED vars
  BY <1>c DEF vars, stateVars
<1>d. ASSUME NEW c \in Commands, Run(c) PROVE OnlyApplied'
  BY <1>5, <1>6, <1>7, <1>8, <1>9, <1>10, <1>11, <1>12,
     <1>13, <1>14, <1>15, <1>16, <1>17, <1>18, <1>19, <1>d
     DEF Run
<1> QED
  BY <1>1, <1>2, <1>3, <1>4, <1>a, <1>b, <1>c, <1>d, <1>e DEF Next

LEMMA RebootInductive ==
  ASSUME IInv, RebootComes, [Next]_vars
  PROVE  RebootComes'
<1> USE OtaBackendAssumption DEF IInv, Types, RebootComes, StatusIsOfJob, Busy
<1>1. ASSUME NEW c \in Commands, Start(c) PROVE RebootComes'
  BY <1>1 DEF Start, Accept, device
<1>2. ASSUME NEW c \in Commands, Refuse(c) PROVE RebootComes'
  BY <1>2 DEF Refuse, stateVars, device
<1>3. ASSUME NEW c \in Commands, Spawn(c) PROVE RebootComes'
  BY <1>3 DEF Spawn, stateVars, device
<1>4. ASSUME NEW c \in Commands, SpawnFails(c) PROVE RebootComes'
  BY <1>4 DEF SpawnFails, device
<1>5. ASSUME NEW c \in Commands, DownloadStart(c) PROVE RebootComes'
  BY <1>5 DEF DownloadStart, Written, Raises, Logs, Goto, Tell, device
<1>6. ASSUME NEW c \in Commands, CheckSignature(c) PROVE RebootComes'
  BY <1>6 DEF CheckSignature, Fails, Goto, stateVars, device
<1>7. ASSUME NEW c \in Commands, Download(c) PROVE RebootComes'
  BY <1>7 DEF Download, Fails, Goto, stateVars, device
<1>8. ASSUME NEW c \in Commands, Verify(c) PROVE RebootComes'
  BY <1>8 DEF Verify, Fails, Goto, stateVars, device
<1>9. ASSUME NEW c \in Commands, ApplyStart(c) PROVE RebootComes'
  BY <1>9 DEF ApplyStart, Written, Raises, Logs, Goto, Tell, device
<1>10. ASSUME NEW c \in Commands, InstallBegins(c) PROVE RebootComes'
  BY <1>10 DEF InstallBegins, Goto, stateVars
<1>11. ASSUME NEW c \in Commands, InstallRefused(c) PROVE RebootComes'
  BY <1>11 DEF InstallRefused, Fails, Goto, device
<1>12. ASSUME NEW c \in Commands, InstallEnds(c) PROVE RebootComes'
  BY <1>12 DEF InstallEnds, Fails, Goto, stateVars
<1>13. ASSUME NEW c \in Commands, PostWriteVerify(c) PROVE RebootComes'
  BY <1>13 DEF PostWriteVerify, Fails, Goto, stateVars
<1>14. ASSUME NEW c \in Commands, ApplyOk(c) PROVE RebootComes'
  BY <1>14 DEF ApplyOk, Written, Raises, Logs, Goto, Active
<1>15. ASSUME NEW c \in Commands, RebootAsked(c) PROVE RebootComes'
  BY <1>15 DEF RebootAsked, Goto, Tell, stateVars, device
<1>16. ASSUME NEW c \in Commands, CommitStart(c) PROVE RebootComes'
  BY <1>16 DEF CommitStart, Written, Raises, Logs, Goto, Tell, device
<1>17. ASSUME NEW c \in Commands, CommitOk(c) PROVE RebootComes'
  BY <1>17 DEF CommitOk, Written, Raises, Logs, Goto, Tell, device
<1>18. ASSUME NEW c \in Commands, Report(c) PROVE RebootComes'
  BY <1>18 DEF Report, Written, Raises, Logs, Goto, Tell, device
<1>19. ASSUME NEW c \in Commands, ReportInternal(c) PROVE RebootComes'
  BY <1>19 DEF ReportInternal, Logs, Goto, Tell, device
<1>a. CASE Reboot \/ Restart
  BY <1>a DEF Reboot, Restart, Fresh
<1>e. CASE OrphanEnds
  BY <1>e DEF OrphanEnds, stateVars
<1>b. CASE DiskChanges
  BY <1>b DEF DiskChanges, stateVars, device
<1>c. CASE UNCHANGED vars
  BY <1>c DEF vars, stateVars, device
<1>d. ASSUME NEW c \in Commands, Run(c) PROVE RebootComes'
  BY <1>5, <1>6, <1>7, <1>8, <1>9, <1>10, <1>11, <1>12,
     <1>13, <1>14, <1>15, <1>16, <1>17, <1>18, <1>19, <1>d
     DEF Run
<1> QED
  BY <1>1, <1>2, <1>3, <1>4, <1>a, <1>b, <1>c, <1>d, <1>e DEF Next

\* What /ota/status shows follows the stage of the worker.
ReportOf(stage) ==
  CASE stage \in {"spawn", "start", "check", "fetch", "verify", "apply"} ->
         {<<"DOWNLOAD", "START">>}
    [] stage \in {"install", "installing", "post", "finish"} ->
         {<<"APPLY", "START">>}
    [] stage = "reboot" -> {<<"REBOOT", "OK">>}
    [] stage = "commit" -> {<<"COMMIT", "START">>}
    [] stage \in {"report", "internal"} ->
         {<<p, "FAIL">> : p \in {"DOWNLOAD", "APPLY", "REBOOT", "COMMIT"}}
    [] OTHER -> Reports

StageShown == \A c \in Commands : <<phase, event>> \in ReportOf(worker[c])

LEMMA ShownInductive ==
  ASSUME IInv, StageShown, <<phase, event>> \in Reports, [Next]_vars
  PROVE  StageShown' /\ (<<phase, event>> \in Reports)'
<1> USE OtaBackendAssumption
    DEF IInv, Types, StageShown, ReportOf, Reports, StatusIsOfJob, Busy
<1>1. ASSUME NEW c \in Commands, Start(c) PROVE StageShown' /\ (<<phase, event>> \in Reports)'
  BY <1>1 DEF Start, Accept
<1>2. ASSUME NEW c \in Commands, Refuse(c) PROVE StageShown' /\ (<<phase, event>> \in Reports)'
  BY <1>2 DEF Refuse, stateVars
<1>3. ASSUME NEW c \in Commands, Spawn(c) PROVE StageShown' /\ (<<phase, event>> \in Reports)'
  BY <1>3 DEF Spawn, stateVars
<1>4. ASSUME NEW c \in Commands, SpawnFails(c) PROVE StageShown' /\ (<<phase, event>> \in Reports)'
  BY <1>4 DEF SpawnFails
<1>5. ASSUME NEW c \in Commands, DownloadStart(c) PROVE StageShown' /\ (<<phase, event>> \in Reports)'
  BY <1>5 DEF DownloadStart, Written, Raises, Logs, Goto, Tell
<1>6. ASSUME NEW c \in Commands, CheckSignature(c) PROVE StageShown' /\ (<<phase, event>> \in Reports)'
  BY <1>6 DEF CheckSignature, Fails, Goto, stateVars
<1>7. ASSUME NEW c \in Commands, Download(c) PROVE StageShown' /\ (<<phase, event>> \in Reports)'
  BY <1>7 DEF Download, Fails, Goto, stateVars
<1>8. ASSUME NEW c \in Commands, Verify(c) PROVE StageShown' /\ (<<phase, event>> \in Reports)'
  BY <1>8 DEF Verify, Fails, Goto, stateVars
<1>9. ASSUME NEW c \in Commands, ApplyStart(c) PROVE StageShown' /\ (<<phase, event>> \in Reports)'
  BY <1>9 DEF ApplyStart, Written, Raises, Logs, Goto, Tell
<1>10. ASSUME NEW c \in Commands, InstallBegins(c) PROVE StageShown' /\ (<<phase, event>> \in Reports)'
  BY <1>10 DEF InstallBegins, Goto, stateVars
<1>11. ASSUME NEW c \in Commands, InstallRefused(c) PROVE StageShown' /\ (<<phase, event>> \in Reports)'
  BY <1>11 DEF InstallRefused, Fails, Goto
<1>12. ASSUME NEW c \in Commands, InstallEnds(c) PROVE StageShown' /\ (<<phase, event>> \in Reports)'
  BY <1>12 DEF InstallEnds, Fails, Goto, stateVars
<1>13. ASSUME NEW c \in Commands, PostWriteVerify(c) PROVE StageShown' /\ (<<phase, event>> \in Reports)'
  BY <1>13 DEF PostWriteVerify, Fails, Goto, stateVars
<1>14. ASSUME NEW c \in Commands, ApplyOk(c) PROVE StageShown' /\ (<<phase, event>> \in Reports)'
  BY <1>14 DEF ApplyOk, Written, Raises, Logs, Goto
<1>15. ASSUME NEW c \in Commands, RebootAsked(c) PROVE StageShown' /\ (<<phase, event>> \in Reports)'
  BY <1>15 DEF RebootAsked, Goto, Tell, stateVars
<1>16. ASSUME NEW c \in Commands, CommitStart(c) PROVE StageShown' /\ (<<phase, event>> \in Reports)'
  BY <1>16 DEF CommitStart, Written, Raises, Logs, Goto, Tell
<1>17. ASSUME NEW c \in Commands, CommitOk(c) PROVE StageShown' /\ (<<phase, event>> \in Reports)'
  BY <1>17 DEF CommitOk, Written, Raises, Logs, Goto, Tell
<1>18. ASSUME NEW c \in Commands, Report(c) PROVE StageShown' /\ (<<phase, event>> \in Reports)'
  <2>1. worker[c] = "report" /\ Busy(c)
    BY <1>18 DEF Report
  <2>2. event = "FAIL" /\ phase \in Active /\ \A d \in Commands \ {c} : worker[d] = "idle"
    BY <2>1, OthersIdle
  <2>3. /\ event' = "FAIL"
        /\ \/ phase' = "NONE" /\ worker' = [worker EXCEPT ![c] = "idle"]
           \/ phase' = phase /\ worker' = [worker EXCEPT ![c] = "internal"]
    BY <1>18, <2>2 DEF Report, Written, Raises, Goto
  <2> QED
    BY <2>2, <2>3 DEF Active
<1>19. ASSUME NEW c \in Commands, ReportInternal(c) PROVE StageShown' /\ (<<phase, event>> \in Reports)'
  <2>1. worker[c] = "internal" /\ Busy(c)
    BY <1>19 DEF ReportInternal
  <2>2. event = "FAIL" /\ phase \in Active /\ \A d \in Commands \ {c} : worker[d] = "idle"
    BY <2>1, OthersIdle
  <2>3. /\ event' = "FAIL" /\ phase' \in {phase, "NONE"}
        /\ worker' = [worker EXCEPT ![c] = "idle"]
    BY <1>19, <2>2 DEF ReportInternal, Goto
  <2> QED
    BY <2>2, <2>3 DEF Active
<1>a. CASE Reboot \/ Restart
  BY <1>a DEF Reboot, Restart, Fresh
<1>e. CASE OrphanEnds
  BY <1>e DEF OrphanEnds, stateVars
<1>b. CASE DiskChanges
  BY <1>b DEF DiskChanges, stateVars
<1>c. CASE UNCHANGED vars
  BY <1>c DEF vars, stateVars
<1>d. ASSUME NEW c \in Commands, Run(c) PROVE StageShown' /\ (<<phase, event>> \in Reports)'
  BY <1>5, <1>6, <1>7, <1>8, <1>9, <1>10, <1>11, <1>12,
     <1>13, <1>14, <1>15, <1>16, <1>17, <1>18, <1>19, <1>d
     DEF Run
<1> QED
  BY <1>1, <1>2, <1>3, <1>4, <1>a, <1>b, <1>c, <1>d, <1>e DEF Next

LEMMA TypesInductive ==
  ASSUME IInv, TypeOK, (<<phase, event>> \in Reports)', [Next]_vars
  PROVE  TypeOK'
<1> USE OtaBackendAssumption
    DEF IInv, Types, TypeOK, Stage, Failure, Version
<1>1. ASSUME NEW c \in Commands, Start(c) PROVE TypeOK'
  BY <1>1 DEF Start, Accept, device
<1>2. ASSUME NEW c \in Commands, Refuse(c) PROVE TypeOK'
  BY <1>2 DEF Refuse, stateVars, device
<1>3. ASSUME NEW c \in Commands, Spawn(c) PROVE TypeOK'
  BY <1>3 DEF Spawn, stateVars, device
<1>4. ASSUME NEW c \in Commands, SpawnFails(c) PROVE TypeOK'
  BY <1>4 DEF SpawnFails, device
<1>5. ASSUME NEW c \in Commands, DownloadStart(c) PROVE TypeOK'
  BY <1>5 DEF DownloadStart, Written, Raises, Logs, Goto, Tell, device
<1>6. ASSUME NEW c \in Commands, CheckSignature(c) PROVE TypeOK'
  BY <1>6 DEF CheckSignature, Fails, Goto, stateVars, device
<1>7. ASSUME NEW c \in Commands, Download(c) PROVE TypeOK'
  BY <1>7 DEF Download, Fails, Goto, stateVars, device
<1>8. ASSUME NEW c \in Commands, Verify(c) PROVE TypeOK'
  BY <1>8 DEF Verify, Fails, Goto, stateVars, device
<1>9. ASSUME NEW c \in Commands, ApplyStart(c) PROVE TypeOK'
  BY <1>9 DEF ApplyStart, Written, Raises, Logs, Goto, Tell, device
<1>10. ASSUME NEW c \in Commands, InstallBegins(c) PROVE TypeOK'
  BY <1>10 DEF InstallBegins, Goto, stateVars
<1>11. ASSUME NEW c \in Commands, InstallRefused(c) PROVE TypeOK'
  BY <1>11 DEF InstallRefused, Fails, Goto, device
<1>12. ASSUME NEW c \in Commands, InstallEnds(c) PROVE TypeOK'
  <2>1. abandoned' \in BOOLEAN
    BY <1>12, Zenon DEF InstallEnds
  <2> QED
    BY <1>12, <2>1 DEF InstallEnds, Fails, Goto, stateVars
<1>13. ASSUME NEW c \in Commands, PostWriteVerify(c) PROVE TypeOK'
  <2>1. abandoned' \in BOOLEAN
    BY <1>13, Zenon DEF PostWriteVerify
  <2> QED
    BY <1>13, <2>1 DEF PostWriteVerify, Fails, Goto, stateVars
<1>14. ASSUME NEW c \in Commands, ApplyOk(c) PROVE TypeOK'
  <2>1. abandoned' \in BOOLEAN
    BY <1>14, Zenon DEF ApplyOk
  <2> QED
    BY <1>14, <2>1 DEF ApplyOk, Written, Raises, Logs, Goto
<1>15. ASSUME NEW c \in Commands, RebootAsked(c) PROVE TypeOK'
  BY <1>15 DEF RebootAsked, Goto, Tell, stateVars, device
<1>16. ASSUME NEW c \in Commands, CommitStart(c) PROVE TypeOK'
  BY <1>16 DEF CommitStart, Written, Raises, Logs, Goto, Tell, device
<1>17. ASSUME NEW c \in Commands, CommitOk(c) PROVE TypeOK'
  BY <1>17 DEF CommitOk, Written, Raises, Logs, Goto, Tell, device
<1>18. ASSUME NEW c \in Commands, Report(c) PROVE TypeOK'
  BY <1>18 DEF Report, Written, Raises, Logs, Goto, Tell, device
<1>19. ASSUME NEW c \in Commands, ReportInternal(c) PROVE TypeOK'
  BY <1>19 DEF ReportInternal, Logs, Goto, Tell, device
<1>a. CASE Reboot \/ Restart
  <2>1. abandoned' \in BOOLEAN
    BY <1>a, Zenon DEF Reboot, Restart
  <2>2. /\ running' \in Version /\ current' \in Version \cup {Unknown}
        /\ rauc' \in Commands \cup {Nothing}
        /\ switched' \in Commands \cup {Nothing}
    BY <1>a DEF Reboot, Restart, Fresh, Inferred
  <2> QED
    BY <1>a, <2>1, <2>2 DEF Reboot, Restart, Fresh
<1>e. CASE OrphanEnds
  <2>1. abandoned' \in BOOLEAN
    BY <1>e, Zenon DEF OrphanEnds
  <2> QED
    BY <1>e, <2>1 DEF OrphanEnds, stateVars
<1>b. CASE DiskChanges
  BY <1>b DEF DiskChanges, stateVars, device
<1>c. CASE UNCHANGED vars
  BY <1>c DEF vars, stateVars, device
<1>d. ASSUME NEW c \in Commands, Run(c) PROVE TypeOK'
  BY <1>5, <1>6, <1>7, <1>8, <1>9, <1>10, <1>11, <1>12,
     <1>13, <1>14, <1>15, <1>16, <1>17, <1>18, <1>19, <1>d
     DEF Run
<1> QED
  BY <1>1, <1>2, <1>3, <1>4, <1>a, <1>b, <1>c, <1>d, <1>e DEF Next

\* The version shown as current was installed and verified here, whatever the
\* logs of a full disk kept and whatever a reboot cut short; unless a config
\* names a command's version as that of the system.
THEOREM CurrentIsApplied ==
  ASSUME SystemVersion \notin Commands
  PROVE  Spec => []CurrentWasApplied
<1>1. Init => OnlyApplied
  BY OtaBackendAssumption DEF Init, OnlyApplied, Installed, Version
<1>2. IInv /\ OnlyApplied /\ [Next]_vars => OnlyApplied'
  BY AppliedInductive
<1>3. OnlyApplied => CurrentWasApplied
  BY DEF OnlyApplied, CurrentWasApplied
<1> QED
  BY Initially, Inductive, <1>1, <1>2, <1>3, PTL DEF Spec

\* With reboot_after_apply an install begins over a slot that was switched and
\* not booted yet only if the job that switched it failed afterwards, its
\* process died, or rauc ended with that process gone.  For all commands,
\* restarts of the process and reboots.
THEOREM InstallsAfterReboot == Spec => InstallsWhenSettled
<1>1. Init => RebootComes
  BY DEF Init, RebootComes
<1>2. IInv /\ RebootComes /\ [Next]_vars => RebootComes'
  BY RebootInductive
<1>3. RebootComes /\ [Next]_vars =>
        [\A c \in Commands : InstallBegins(c) /\ rebootAfterApply =>
            switched = Nothing \/ abandoned]_vars
  BY DEF RebootComes, InstallBegins
<1> QED
  BY Initially, Inductive, <1>1, <1>2, <1>3, PTL DEF Spec, InstallsWhenSettled

\* The types, and that /ota/status shows one of the twelve pairs of phase and
\* event that its reader knows.
THEOREM BackendTyped == Spec => []TypeOK
<1>1. Init => TypeOK /\ StageShown
  <2> SUFFICES ASSUME Init PROVE TypeOK /\ StageShown
    OBVIOUS
  <2>1. <<phase, event>> \in Reports /\ StageShown
    BY DEF Init, StageShown, ReportOf, Reports
  <2>2. rebootAfterApply \in BOOLEAN
    BY OtaBackendAssumption, Zenon DEF Init
  <2> QED
    BY <2>1, <2>2, OtaBackendAssumption DEF Init, TypeOK, Stage, Version
<1>2. IInv /\ TypeOK /\ StageShown /\ [Next]_vars => TypeOK' /\ StageShown'
  BY ShownInductive, TypesInductive DEF TypeOK
<1> QED
  BY Initially, Inductive, <1>1, <1>2, PTL DEF Spec
=============================================================================
