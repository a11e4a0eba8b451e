----------------------------- MODULE OtaBackend -----------------------------
(***************************************************************************)
(* The OTA backend of the head unit: one process whose Flask and MQTT      *)
(* threads take update commands, and the worker thread each accepted       *)
(* command starts.  They share one `state` object: a command is accepted   *)
(* under _ota_start_lock when the phase is not active; everything else,    *)
(* the phase included, the worker writes without it.                       *)
(*                                                                         *)
(* A command is known by its ota_id, and names the version it installs.    *)
(* The worker's steps are cut where another thread, a full disk, a restart *)
(* of the process or a reboot of the device can come between.              *)
(***************************************************************************)
EXTENDS Naturals

CONSTANTS
  Commands,        \* the commands the server may send, each any number of times
  Signed,          \* those whose signature verifies
  SystemVersion,   \* version named by the config or os-release, or Unknown
  RebootConfigs,   \* the values of reboot_after_apply to consider
  Factory, Unknown, Nothing

Version == Commands \cup {Factory}
Active == {"DOWNLOAD", "APPLY", "REBOOT", "COMMIT"}

ASSUME OtaBackendAssumption ==
  /\ Signed \subseteq Commands
  /\ SystemVersion \in Version \cup {Unknown}
  /\ RebootConfigs \subseteq BOOLEAN /\ RebootConfigs # {}
  /\ Factory \notin Commands /\ Unknown \notin Version /\ Nothing \notin Version

VARIABLES
  phase, event,      \* state.phase, state.event
  job,               \* state.active_ota_id (and target_version)
  lastError,         \* state.last_error
  current,           \* state.current_version
  worker,            \* where each command's worker thread is
  bundle,            \* /data/ota/<ota_id>.raucb
  logged,            \* version the event logs name, newest first
  diskFull,          \* can no event be written to /data?
  rauc,              \* the command whose `rauc install` is running
  switched,          \* what cmdline.txt will boot, if not what is running
  abandoned,         \* history: is no job left that reboots into the
                     \* switched slot?  It failed, or died with the process.
  running,           \* the version that is running
  rebootAfterApply,  \* reboot_after_apply of the configuration
  told,              \* history: the last MQTT status published, and of whom
  applied            \* history: versions installed and verified

stateVars == <<phase, event, job, lastError, current>>
device == <<rauc, switched, abandoned, running>>
vars == <<stateVars, worker, bundle, logged, diskFull, device,
          rebootAfterApply, told, applied>>

Stage == {"idle", "spawn", "start", "check", "fetch", "verify", "apply",
          "install", "installing", "post", "finish", "reboot", "commit",
          "report", "internal"}
Failure == {"SIGNATURE", "DOWNLOAD", "VERIFY", "RAUC_INSTALL", "POST_WRITE",
            "INTERNAL", "THREAD_START"}

\* What /ota/status may report.  A failure leaves its event behind.
Reports ==
  {<<"NONE", "NONE">>, <<"NONE", "FAIL">>, <<"NONE", "OK">>,
   <<"DOWNLOAD", "START">>, <<"DOWNLOAD", "FAIL">>,
   <<"APPLY", "START">>, <<"APPLY", "FAIL">>,
   <<"REBOOT", "OK">>, <<"REBOOT", "FAIL">>,
   <<"COMMIT", "START">>, <<"COMMIT", "OK">>, <<"COMMIT", "FAIL">>}

TypeOK ==
  /\ <<phase, event>> \in Reports
  /\ job \in Commands \cup {Nothing}
  /\ lastError \in Failure \cup {"none"}
  /\ current \in Version \cup {Unknown} /\ logged \in Version \cup {Unknown}
  /\ worker \in [Commands -> Stage]
  /\ bundle \in [Commands -> {"none", "sound", "damaged"}]
  /\ diskFull \in BOOLEAN /\ abandoned \in BOOLEAN
  /\ rebootAfterApply \in BOOLEAN
  /\ rauc \in Commands \cup {Nothing} /\ switched \in Commands \cup {Nothing}
  /\ running \in Version
  /\ told \in (Commands \cup {Nothing}) \X
             {"none", "downloading", "installing", "completed", "failed"}
  /\ applied \subseteq Commands

\* _initialize_current_version: the system names a version, or the logs do.
Inferred == IF SystemVersion # Unknown THEN SystemVersion ELSE logged

Init ==
  /\ phase = "NONE" /\ event = "NONE" /\ job = Nothing /\ lastError = "none"
  /\ current = SystemVersion
  /\ worker = [c \in Commands |-> "idle"]
  /\ bundle = [c \in Commands |-> "none"]
  /\ logged = Unknown /\ diskFull = FALSE
  /\ rauc = Nothing /\ switched = Nothing /\ abandoned = FALSE
  /\ running = Factory /\ applied = {}
  /\ rebootAfterApply \in RebootConfigs
  /\ told = <<Nothing, "none">>

-----------------------------------------------------------------------------
(***************************************************************************)
(* _start_ota_job, called by POST /ota/start and by the MQTT thread.       *)
(***************************************************************************)
Accept(c) ==
  /\ job' = c /\ lastError' = "none"
  /\ phase' = "DOWNLOAD" /\ event' = "START"
  /\ worker' = [worker EXCEPT ![c] = "spawn"]
  /\ UNCHANGED <<current, bundle, logged, diskFull, device, rebootAfterApply,
                 told, applied>>

\* A command that is refused over HTTP is answered 409 and changes nothing.
Start(c) ==
  /\ phase \notin Active
  /\ worker[c] = "idle"     \* one place for each command's thread
  /\ Accept(c)

\* Over MQTT it is answered with the status "failed" for its version.
Refuse(c) ==
  /\ phase \in Active
  /\ told' = <<c, "failed">>
  /\ UNCHANGED <<stateVars, worker, bundle, logged, diskFull, device,
                 rebootAfterApply, applied>>

Spawn(c) ==
  /\ worker[c] = "spawn"
  /\ worker' = [worker EXCEPT ![c] = "start"]
  /\ UNCHANGED <<stateVars, bundle, logged, diskFull, device,
                 rebootAfterApply, told, applied>>

SpawnFails(c) ==
  /\ worker[c] = "spawn"
  /\ worker' = [worker EXCEPT ![c] = "idle"]
  /\ phase' = "NONE" /\ event' = "FAIL" /\ lastError' = "THREAD_START"
  /\ told' \in {told, <<c, "failed">>}   \* over HTTP, over MQTT
  /\ UNCHANGED <<job, current, bundle, logged, diskFull, device,
                 rebootAfterApply, applied>>

-----------------------------------------------------------------------------
(***************************************************************************)
(* _run.  An event is appended to the command's log; when /data is full    *)
(* that raises, and the worker goes on in its except clause.               *)
(***************************************************************************)

Goto(c, stage) == worker' = [worker EXCEPT ![c] = stage]
Tell(c, status) == told' = <<c, status>>

\* Mutation: the logs name the target of whatever event came last.
LogsTarget(c, final) == logged' = c

\* The newest event decides what a later start infers from the logs: a final
\* OK names its target, any other the version current when it was written.
Logs(c, final) ==
  logged' = IF final THEN c
            ELSE IF current # Unknown THEN current ELSE logged

\* _write_event succeeds and the worker goes on; or it raises.
Written(c, final, stage) ==
  /\ ~diskFull /\ Logs(c, final) /\ Goto(c, stage)

Raises(c) ==
  /\ diskFull /\ event' = "FAIL" /\ lastError' = "INTERNAL"
  /\ Goto(c, "internal") /\ UNCHANGED logged

\* Any of the seven failures: event and last_error first, the rest in Report.
Fails(c, error) ==
  /\ event' = "FAIL" /\ lastError' = error
  /\ Goto(c, "report") /\ UNCHANGED <<phase, job, current>>

DownloadStart(c) ==
  /\ worker[c] = "start"
  /\ job' = c /\ phase' = "DOWNLOAD"
  /\ Tell(c, "downloading")
  /\ \/ Written(c, FALSE, "check") /\ lastError' = "none" /\ event' = "START"
     \/ Raises(c)
  /\ UNCHANGED <<current, bundle, diskFull, device, rebootAfterApply, applied>>

CheckSignature(c) ==
  /\ worker[c] = "check"
  /\ IF c \in Signed THEN Goto(c, "fetch") /\ UNCHANGED stateVars
     ELSE Fails(c, "SIGNATURE")
  /\ UNCHANGED <<bundle, logged, diskFull, device, rebootAfterApply, told,
                 applied>>

\* Other bundles are removed; an interrupted download leaves none.
Download(c) ==
  /\ worker[c] = "fetch"
  /\ \E got \in {"none", "sound", "damaged"} :
       /\ bundle' = [d \in Commands |-> IF d = c THEN got ELSE "none"]
       /\ IF got = "none" THEN Fails(c, "DOWNLOAD")
          ELSE Goto(c, "verify") /\ UNCHANGED stateVars
  /\ UNCHANGED <<logged, diskFull, device, rebootAfterApply, told, applied>>

\* Mutation: what was downloaded is taken for what was asked for.
VerifySkipped(c) ==
  /\ worker[c] = "verify"
  /\ Goto(c, "apply")
  /\ UNCHANGED <<stateVars, bundle, logged, diskFull, device,
                 rebootAfterApply, told, applied>>

Verify(c) ==
  /\ worker[c] = "verify"
  /\ IF bundle[c] = "sound" THEN Goto(c, "apply") /\ UNCHANGED stateVars
     ELSE Fails(c, "VERIFY")
  /\ UNCHANGED <<bundle, logged, diskFull, device, rebootAfterApply, told,
                 applied>>

\* Mutation: the event of the phase before is kept.
ApplyInSilence(c) ==
  /\ worker[c] = "apply"
  /\ phase' = "APPLY" /\ event' = "OK"
  /\ Tell(c, "installing")
  /\ Written(c, FALSE, "install") /\ UNCHANGED lastError
  /\ UNCHANGED <<job, current, bundle, diskFull, device, rebootAfterApply,
                 applied>>

ApplyStart(c) ==
  /\ worker[c] = "apply"
  /\ phase' = "APPLY"
  /\ Tell(c, "installing")
  /\ \/ Written(c, FALSE, "install") /\ event' = "START" /\ UNCHANGED lastError
     \/ Raises(c)
  /\ UNCHANGED <<job, current, bundle, diskFull, device, rebootAfterApply,
                 applied>>

\* rauc install: refused while another runs, as it is when the bundle's own
\* signature fails.
InstallBegins(c) ==
  /\ worker[c] = "install" /\ rauc = Nothing
  /\ rauc' = c
  /\ Goto(c, "installing")
  /\ UNCHANGED <<stateVars, bundle, logged, diskFull, switched, abandoned,
                 running, rebootAfterApply, told, applied>>

InstallRefused(c) ==
  /\ worker[c] = "install"
  /\ Fails(c, "RAUC_INSTALL")
  /\ UNCHANGED <<bundle, logged, diskFull, device, rebootAfterApply, told,
                 applied>>

\* The slot is written and cmdline.txt switched to it; or rauc gives up.
InstallEnds(c) ==
  /\ worker[c] = "installing" /\ rauc' = Nothing
  /\ \/ /\ switched' = c /\ abandoned' = FALSE
        /\ Goto(c, "post") /\ UNCHANGED stateVars
     \/ Fails(c, "RAUC_INSTALL") /\ UNCHANGED <<switched, abandoned>>
  /\ UNCHANGED <<bundle, logged, diskFull, running, rebootAfterApply, told,
                 applied>>

\* The slot stays switched when e2fsck finds fault with it, or when `rauc
\* status` does not answer within 1.5 s.
PostWriteVerify(c) ==
  /\ worker[c] = "post"
  /\ \/ /\ applied' = applied \cup {c} /\ Goto(c, "finish")
        /\ UNCHANGED <<stateVars, abandoned>>
     \/ Fails(c, "POST_WRITE") /\ abandoned' = TRUE /\ UNCHANGED applied
  /\ UNCHANGED <<bundle, logged, diskFull, rauc, switched, running,
                 rebootAfterApply, told>>

\* The version is the target's from here on, before anything was booted.
ApplyOk(c) ==
  /\ worker[c] = "finish"
  /\ phase' = "REBOOT" /\ current' = c
  /\ \/ Written(c, TRUE, "reboot") /\ event' = "OK"
        /\ UNCHANGED <<lastError, abandoned>>
     \/ Raises(c) /\ abandoned' = TRUE
  /\ UNCHANGED <<job, bundle, diskFull, rauc, switched, running,
                 rebootAfterApply, told, applied>>

\* Mutation: the phase is cleared whichever way the worker ends.
RebootAskedAndFreed(c) ==
  /\ worker[c] = "reboot" /\ rebootAfterApply
  /\ Tell(c, "completed")
  /\ phase' = "NONE"
  /\ Goto(c, "idle")
  /\ UNCHANGED <<event, job, lastError, current, bundle, logged, diskFull,
                 device, rebootAfterApply, applied>>

\* `systemctl reboot` returns at once; the phase stays REBOOT until it happens.
RebootAsked(c) ==
  /\ worker[c] = "reboot" /\ rebootAfterApply
  /\ Tell(c, "completed")
  /\ Goto(c, "idle")
  /\ UNCHANGED <<stateVars, bundle, logged, diskFull, device,
                 rebootAfterApply, applied>>

CommitStart(c) ==
  /\ worker[c] = "reboot" /\ ~rebootAfterApply
  /\ phase' = "COMMIT"
  /\ Tell(c, "installing")
  /\ \/ Written(c, FALSE, "commit") /\ event' = "START" /\ UNCHANGED lastError
     \/ Raises(c)
  /\ UNCHANGED <<job, current, bundle, diskFull, device, rebootAfterApply,
                 applied>>

CommitOk(c) ==
  /\ worker[c] = "commit"
  /\ Tell(c, "completed")
  /\ \/ /\ Written(c, TRUE, "idle") /\ event' = "OK" /\ phase' = "NONE"
        /\ UNCHANGED lastError
     \/ Raises(c) /\ UNCHANGED phase
  /\ UNCHANGED <<job, current, bundle, diskFull, device, rebootAfterApply,
                 applied>>

\* Mutation: the phase is cleared as soon as the failure is known.
ReportAfterClearing(c) ==
  /\ worker[c] = "report"
  /\ \/ /\ phase # "NONE" /\ phase' = "NONE"
        /\ UNCHANGED <<event, lastError, logged, worker, told>>
     \/ /\ phase = "NONE" /\ Written(c, FALSE, "idle") /\ Tell(c, "failed")
        /\ UNCHANGED <<phase, event, lastError>>
     \/ /\ phase = "NONE" /\ Raises(c) /\ UNCHANGED <<phase, told>>
  /\ UNCHANGED <<job, current, bundle, diskFull, device, rebootAfterApply,
                 applied>>

\* Mutation: one way to fail returns without clearing the phase.
ReportKeepsPhase(c) ==
  /\ worker[c] = "report"
  /\ \/ Written(c, FALSE, "idle") /\ Tell(c, "failed")
        /\ UNCHANGED <<phase, event, lastError>>
     \/ Raises(c) /\ UNCHANGED <<phase, told>>
  /\ UNCHANGED <<job, current, bundle, diskFull, device, rebootAfterApply,
                 applied>>

Report(c) ==
  /\ worker[c] = "report"
  /\ \/ /\ Written(c, FALSE, "idle") /\ Tell(c, "failed") /\ phase' = "NONE"
        /\ UNCHANGED <<event, lastError>>
     \/ Raises(c) /\ UNCHANGED <<phase, told>>
  /\ UNCHANGED <<job, current, bundle, diskFull, device, rebootAfterApply,
                 applied>>

\* The except clause writes an event of its own: if that raises too, the
\* thread dies and nobody ever clears the phase.
ReportInternal(c) ==
  /\ worker[c] = "internal" /\ Goto(c, "idle")
  /\ \/ ~diskFull /\ Logs(c, FALSE) /\ Tell(c, "failed") /\ phase' = "NONE"
     \/ diskFull /\ UNCHANGED <<logged, told, phase>>
  /\ UNCHANGED <<event, job, lastError, current, bundle, diskFull, device,
                 rebootAfterApply, applied>>

Run(c) ==
  \/ DownloadStart(c) \/ CheckSignature(c) \/ Download(c) \/ Verify(c)
  \/ ApplyStart(c) \/ InstallBegins(c) \/ InstallRefused(c) \/ InstallEnds(c)
  \/ PostWriteVerify(c) \/ ApplyOk(c) \/ RebootAsked(c) \/ CommitStart(c)
  \/ CommitOk(c) \/ Report(c) \/ ReportInternal(c)

-----------------------------------------------------------------------------
\* A process that starts: no job, and the version that system or logs name.
Fresh ==
  /\ worker' = [c \in Commands |-> "idle"]
  /\ phase' = "NONE" /\ event' = "NONE" /\ job' = Nothing
  /\ lastError' = "none" /\ current' = Inferred

(***************************************************************************)
(* The device reboots: by the worker, by POST /ota/reboot, by its user.  A *)
(* switched slot is confirmed by the guard or rolled back.                 *)
(***************************************************************************)
Reboot ==
  /\ running' \in IF switched = Nothing THEN {running} ELSE {running, switched}
  /\ switched' = Nothing /\ abandoned' = FALSE /\ rauc' = Nothing
  /\ Fresh
  /\ UNCHANGED <<bundle, logged, diskFull, rebootAfterApply, told, applied>>

\* A worker asked for a reboot and ended.
RebootDue ==
  /\ phase = "REBOOT" /\ event = "OK"
  /\ \A c \in Commands : worker[c] = "idle"

\* The process dies with its threads and systemd starts it again
\* (Restart=on-failure), unless the device is going down already.  A rauc
\* service at work goes on, and cmdline.txt stays as it is.
Restart ==
  /\ ~RebootDue
  /\ Fresh
  /\ abandoned' = (switched # Nothing)
  /\ UNCHANGED <<bundle, logged, diskFull, rauc, switched, running,
                 rebootAfterApply, told, applied>>

\* An install that nobody waits for any more ends.
OrphanEnds ==
  /\ rauc # Nothing /\ worker[rauc] # "installing"
  /\ rauc' = Nothing
  /\ \/ switched' = rauc /\ abandoned' = TRUE
     \/ UNCHANGED <<switched, abandoned>>
  /\ UNCHANGED <<stateVars, worker, bundle, logged, diskFull, running,
                 rebootAfterApply, told, applied>>

\* /data fills up, or space is freed.
DiskChanges ==
  /\ diskFull' = ~diskFull
  /\ UNCHANGED <<stateVars, worker, bundle, logged, device, rebootAfterApply,
                 told, applied>>

Next ==
  \/ \E c \in Commands :
       Start(c) \/ Refuse(c) \/ Spawn(c) \/ SpawnFails(c) \/ Run(c)
  \/ Reboot \/ Restart \/ OrphanEnds \/ DiskChanges

Spec == Init /\ [][Next]_vars

\* Threads are scheduled, rauc returns, and a reboot asked for happens.
FairSpec ==
  /\ Spec
  /\ \A c \in Commands : WF_vars(Spawn(c) \/ SpawnFails(c)) /\ WF_vars(Run(c))
  /\ WF_vars(RebootDue /\ Reboot)

-----------------------------------------------------------------------------
Busy(c) == worker[c] # "idle"

\* What /ota/status shows of a running job is that job: nobody else writes
\* active_ota_id, nor frees the phase, before the worker ends, however late
\* that is.  So two commands, from the HTTP and the MQTT thread, never run at
\* the same time.
StatusIsOfJob == \A c \in Commands : Busy(c) => job = c /\ phase \in Active

\* Whenever rauc starts, the bundle on the disk is the one its command's hash
\* matched, and the command's signature verified: also when an install of the
\* same command outlived an earlier process.
InstallsVerified ==
  [][rauc' \notin {rauc, Nothing} =>
       rauc' \in Signed /\ bundle[rauc'] = "sound"]_vars

\* With reboot_after_apply an install begins while cmdline.txt names the slot
\* it would write only for three reasons: the job that switched failed after
\* that; its process died before it asked for the reboot; or rauc switched
\* when the process that had started it was gone.
InstallsWhenSettled ==
  [][\A c \in Commands : InstallBegins(c) /\ rebootAfterApply =>
       switched = Nothing \/ abandoned]_vars

\* The version reported never was merely asked for: it was installed and
\* verified here, whatever was logged before a restart.
CurrentWasApplied == current \in Commands => current \in applied

\* The worker died in its except clause.
Wedged ==
  /\ phase \in Active /\ event = "FAIL" /\ lastError = "INTERNAL"
  /\ \A c \in Commands : ~Busy(c)

\* A job ends, and the next command is accepted; or its worker died.
JobEnds == phase \in Active ~> phase \notin Active \/ Wedged

\* ARCHITECTURE.md: when rauc install fails the status is "failed".
InstallFailureReported ==
  \A c \in Commands :
    worker[c] = "report" /\ lastError = "RAUC_INSTALL"
      ~> told = <<c, "failed">> \/ phase = "NONE"
=============================================================================
