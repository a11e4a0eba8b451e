# TLA+ models of the DES head unit

Formal models of the DES head unit and instrument cluster: the update path (the
Raspberry Pi 4 image with two rootfs slots, the OTA backend that installs a release
into the other slot, its link to the server, the boot scripts that try the new slot
and take it back, the status client the driver sees), the gear, the phone and its
music, and speed and battery from the sensors to the head unit. Paths below are relative to the repository root;
`rauc/` stands for `yocto-workspace/meta-custom/meta-app/recipes-ota/rauc/files/`.

## 1. The system

| part | code | state it keeps | operations |
|---|---|---|---|
| boot scripts | `rauc/rauc-bootloader-backend.sh`, `rauc-boot-check.sh`, `rauc-mark-good.sh` | four files of the vfat partition `/boot`: `cmdline.txt` (the slot the firmware boots), `cmdline.prev.txt` (the way back), `rauc.state` (the pending update and its remaining attempts), `rauc.bootstate` (primary and marks, for RAUC) | `set-state`, `set-primary` during `rauc install`; boot counting and rollback before `sysinit.target`; health watch, confirmation, rollback |
| OTA backend | `ota/client/app/main.py`, `ota_logic.py` | one `state` object shared by the Flask, MQTT and worker threads; bundles and event logs on `/data` | start a job (HTTP or MQTT), download, verify, install, check, report, reboot; infer the version at start |
| event queue | `ota_logic.py:448-513` | `queue.jsonl`, unlocked | post, queue, flush |
| MQTT bridge | `main.py:619-934`, `1434-1469`, `mqtt_utils.py` | connection, last announcement, whether the server knows the device | command, announcement, status and register topics, last will, heartbeat |
| OTA status client | `Head-Unit/src/backend/ota/ota_status_client.cpp`, `OtaStatusScreen.qml` | what the OTA page and the Home button show; poll and request timers, one HTTP request | open, close, poll, request an update, take the D-Bus signal |
| gear | `Cluster-app/src/module/GearManager.cpp`, `Head-Unit/.../gear_client.cpp`, `Pi-controller/controller.py` | the gear, in the cluster, in the head unit, in shared memory and in the controller | request, signal, fetch, gamepad button |
| Bluetooth | `bluetooth_manager.cpp`, `bluetooth_audio_player.cpp`, `bluetooth_agent.cpp` | connected, saved and preferred devices; device and player path | poll BlueZ, connect, disconnect, reconnect, discover the player, BlueZ restart |
| cluster | `Cluster-app/src/`: `InstrumentCluster.cpp`, `CanGateway.cpp`, `BatteryMonitor.cpp`, `BatterySoc.cpp`, `ViewModel.cpp`, `VehicleDataManager.cpp`; `Head-Unit/.../vehicle_data_client.cpp` | the CAN thread's status, the window of voltages, speed and charge in the view model and in the head unit | open, read, close; sample and filter; publish, fetch |
| the rest | music player, weather, QML pages, Arduino sketch, recipes, tools | | see section 7 |

How they interact. The server announces a release and sends a command, over MQTT
or HTTP, to the backend. The backend's worker calls `rauc install`; RAUC calls the
bootloader backend for the slot it writes (`set-state bad`, later
`set-primary`), which edits `/boot`. After the reboot the firmware follows
`cmdline.txt`, `rauc-boot-check.sh` counts the boot, `rauc-mark-good.sh` confirms
the slot once weston and headunit have been stable, or restores `cmdline.txt`. The
backend then reads the running version back from its own logs. The status client
polls `/ota/status` while its page is open and hears announcements over D-Bus.

What is hard in it: power cuts between the writes of three scripts to four files
that nothing makes atomic; installs that overlap the health check of the previous
one; two threads that start jobs and a worker that writes the phase without the
lock; failures on a full disk inside the handler of failures; two threads on one
unlocked queue file; answers of the status server that a D-Bus signal overtakes;
`QNetworkReply::abort`, which emits `finished` before it returns; three threads that
tell the server what they saw seconds ago, over a link that drops; phones and a
`bluetoothd` that change between a check and the calls it leads to; a CAN thread that
overwrites the stop it was sent. `PROJECT.json`
lists each hazard at its line.

## 2. Modules

| module | models |
|---|---|
| `SlotUpdate` | the promise of the A/B protocol, every step atomic, no files |
| `RaucBoot` | the three boot scripts over `mem` (page cache) and `disk` (card) |
| `OtaBackend` | the command lock, the worker step by step, the device under it |
| `EventQueue` | `_post_event`, `_queue_event`, `_flush_queue` as two threads |
| `MqttBridge` | paho's thread, heartbeat, HTTP thread and job workers over paho's queue, a broker with clean sessions and a last will |
| `BluetoothAudioPlayer`, `BluetoothManager` | the player's methods; the manager, BlueZ, the adapter and the phones around it |
| `BluetoothTracks` | the two with the tracks that the page shows |
| `CanGateway`, `BatteryMonitor` | the CAN thread and the GUI thread that starts and ends it; the window of voltages and the charge table |
| `Cluster` | the two composed with the view model, D-Bus and the head unit's client |
| `Gear` | the controller's loop, the shared word, the cluster's `GearManager` and view model, the head unit's `GearClient` |
| `OtaStatusClient` | the Qt object's functions as functions on a record of its members, and the world that calls them |
| `MC*` | the instances for TLC |
| `*_proofs` | theorems and their proofs, one module per component |

`RaucBoot` instantiates `SlotUpdate` (`Update`) with a refinement mapping: the
active slot is `disk.cmdline`, the trial is what `disk.state` records.

### RaucBoot
A script that does several writes is cut into one action per write that a power
cut can separate; `sync` copies `mem` to `disk`. `PowerCut` leaves each unsynced
file with its old content, its new content, or empty (`Torn`). The stages in
`boot`, `guard` and `rauc` are the program counters of the boot, of
`rauc-mark-good.sh` and of `rauc install`. An installed rootfs is one of five kinds
(`Image`) by what the scripts can notice of it: it panics before user space,
crashes there, lets headunit fail, hangs, or is good. `confirmed`, `trials`, `cuts`
and `exposed` are history: they restrict no action.

`exposed` names the four things the scripts do not survive: a power cut that leaves
`cmdline.txt` and `rauc.state` of different moments, one of them empty, or a record
with another's backup (`TornApart`); `set-primary` stopped between `cmdline.txt` and
`rauc.state` by a reboot or with RAUC; a guard that takes the record of a newer install
for a stale one; an install begun while an update is pending. It lasts until a guard is
done on a confirmed slot with nothing pending, on the card as in memory (`Settled`).

### OtaBackend
`phase`, `event`, `job`, `lastError`, `current` are the fields of `state`;
`worker[c]` is the worker's place in `_run`, cut wherever another thread, a failing
write to `/data`, a restart of the process or a reboot can come between. `Restart` is
systemd's (`Restart=on-failure`): the threads and the `state` object are gone, while
`cmdline.txt` and a `rauc` service at work stay; `OrphanEnds` is the end of an install
that nobody waits for. `Reboot` takes those along. `abandoned` and `told` are history. The event log matters for one
thing, the version it names, which is read back at start (`Inferred`). RAUC and
the boot protocol appear as `rauc`, `switched`, `running`: what RaucBoot says in
detail, as the backend can observe it.

### EventQueue
`pc`, `hand` are per thread, since both run `_post_event`. `handles` says whose open
file still carries the name `queue.jsonl`: an `open` before `os.remove` and a
`write` after it go to a file that is gone. A line that a full disk cut short is
`Torn`, and swallows the line appended behind it. `raced` is history.

### OtaStatusClient
Handlers run to completion on the GUI thread, so each is one step; the functions
they call are operators on the record of members, in the order of the code,
including the handler of `finished` that `abort()` runs inside `stopPolling`.

### MqttBridge
`connected` is the bridge's flag, `link` whether the broker has a session: the handlers
of the one paho thread change the first, the network the second. A handler that
publishes measures the network first, which takes seconds; `mqtt` is what paho's thread
is about to publish meanwhile, `heartbeat = "measuring"` the same for the heartbeat,
which has looked at the phase before. `out` is paho's queue, which outlives the link
and not the process. A job is its phase and what it tells: `OtaBackend` has its steps.
One that fails on a full `/data` may die in its except clause, before it tells `failed`,
and leave its phase active (`Wedged`).
That an announcement comes within ten seconds of the last is a choice (`MayDrop`).
`announced`, `outcome` and `told` are history, forgotten when a dead session or a
refusal makes them no measure any more, which keeps the state space small.

### Bluetooth
Everything runs on the GUI thread: one handler at a time, with D-Bus calls that block
it. A call that fails, and a `bluetoothd` that stops between two calls of a handler
(`CheckCutShort`, `DiscoverCutShort`), are actions of their own. `BluetoothAudioPlayer`
has the player's methods as operators that the manager's actions call, as
`checkForNewConnections` calls `setConnectedDevice`. `ownerEvents` and `modeEvent` are
signals queued for the GUI thread; the mode a notice carries is read when it is
delivered. `unseen` is history.

### CanGateway, BatteryMonitor, Cluster
`status` is written by both threads and never locked; `worker` is cut between the test
and the assignment of `start()`. `gui` follows `main`: opened, running, then the
steps of `closeCan`. The gauge's window `records` holds filtered readings, as in the
code, and `sum` is `_sum`, updated reading by reading as `getSoc` does. `signals` and `call`/`answer` are what is on the bus between cluster and head unit;
`Cluster` kills and restarts either side at any point. `informed` is history.

### Gear
The controller's gear (`mode`, the one that limits the throttle) is written to the
segment in every loop; the cluster's timer reads it (`sample`) and applies it in a
second step, because the controller may write in between and `applyGearUpdate` writes
the word back. `shm` has the segment of that name and one that was unlinked while the
cluster still maps it; `mapped` says which of the two the cluster reads. `signals` and
`calls` are D-Bus messages, in order per direction; `answer` is apart, since a blocking
`GetGear` returns before the signals queued ahead of it are dispatched.

## 3. Runs

| run | instance | shows |
|---|---|---|
| `boot_clean` | power cuts only while `/boot` is in sync, installs wait for the guard, 3 attempts, all five images, 3 cuts | the scripts implement `SlotUpdate` step by step; trials end |
| `boot_cuts` | 2 cuts anywhere, torn files, RAUC killed anywhere, installs possibly before the guard of this boot has looked | the attempts budget; a half-written slot is marked bad on the card and never booted; but for the exposures named in section 2, a trial has its record and a proven slot to go back to, and every step implements `SlotUpdate` |
| `boot_overlap` | as `boot_clean` without cuts, with installs during the health check | violation, section 6 |
| `client` | 3 retries, signals may be lost, four of the backend's twelve pairs of phase and event, enough for every `otaState` | polling survives everything; state and connection agree; closing goes quiet; offers appear; outages end |
| `backend` | two signed commands, one unsigned, disk filling and freeing, restarts of the process and reboots anywhere | the status is the one worker's; only verified bundles are installed; an install begins over a switched slot for three reasons only; jobs end |
| `backend_stuck` | the same | violation, section 6 |
| `queue` | three events, two lost answers, two restarts or failed writes | an event is lost only where the threads meet in the file, repeated only when its answer was lost, delivered once the flusher has it |
| `gear` | three gears, two buttons, two requests, two starts of the controller, the head unit restarting at will | the head unit shows what the cluster signalled; the gear that drives ends up shown |
| `bridge` | two commands, two releases, one message each way under way, one dropped link, one restart, both values of `reboot_after_apply`, heartbeat as shipped (after an announcement) | the offer is the last announcement; a job's last status is the last the server got; a lost device is seen again, unless its worker died with the phase active |
| `bluetooth` | two phones, one of them a favourite, three reconnect attempts, two undelivered owner changes, failing calls | the player follows the manager; controls match the phone; switches match the adapter; a phone that stays is served; reconnecting ends |
| `bluetooth_tracks` | the same with one attempt and one owner change | violation, section 6 |
| `cluster` | a stopped and a turning wheel, three voltages 20 and 24 mV apart around the threshold of 30, a window of two readings, one frame and one signal under way | nobody waits for ever; a steady voltage is shown; the head unit shows the cluster |

Why the bounds are enough. Two slots is what the device has. Three attempts is
the scripts' own constant. Two cuts reach a torn file written on top of a torn
file, and three clean cuts spend every attempt. Two commands are needed for the lock
and for an install over a switched slot; the third only fails its signature. Three
events put one in the flusher's hand, one behind it, one in the worker's. Two
buttons and two requests let each side change its mind while the other's change is
on its way. One dropped link and one restart, in either order, are what a reconnect,
a last will and a lost `_presence_announced` take; a second message under way adds
only order, which paho keeps. Two phones let one take over from the other. A window of
two is the least in which a replaced reading is averaged with a true one. No safety property
depends on these numbers in the proofs of section 5.

## 4. Fairness

- Boot: the boot sequence and the guard go on (systemd runs them), a board that
  crashed or shows nothing is restarted, the kernel writes dirty pages back while no
  script is at work. Installs, reboots, cuts and which image arrives are free.
- Backend: threads are scheduled, `rauc` returns, and a reboot that was asked for
  happens. Commands, reboots by others and the disk are unconstrained.
- Queue: the daemon thread wakes for ever (`stop_event.wait(interval)`), and the
  collector is not down for ever (strong fairness of being accepted, event by event).
- Gear: the controller loops (its gamepad is there), the cluster's timer fires, messages
  are delivered. Buttons, requests, starts and ends are free. `DrivenIsShown` leaves out
  the time in which the head unit is starting or the mapped segment is dead.
- Bridge: threads are scheduled and measurements return, downloads and `rauc` return,
  paho reconnects for ever (`reconnect_delay_set`, `loop_start`), and a broker that has a
  session takes what is queued. What the server sends, drops and restarts are free.
- Bluetooth: the check, reconnect and discovery timers fire and queued signals are
  delivered. Phones, other programs, the driver and `bluetoothd` are free; `PhoneServed`
  is about a phone that stays.
- Cluster: both threads are scheduled and the event loop turns; the battery's timer
  fires, strongly fair because each reading may wait for room on the bus. No frame is
  promised: the bus may be silent and `read()` block for ever, and it is the
  `CLOSE_WAIT` of `closeCan` that ends the wait for the thread.
- Client: Qt fires an armed timer. Strong fairness, because pressing *Update*
  disarms it; nobody can press within its 0 ms for ever. The request timer bounds a
  request. A backend asked again and again answers in time (systemd restarts it).

## 5. What is proved

Checked by TLAPS for every value of the constants; the named ASSUMEs of the modules
are evaluated by TLC in every run.

- `RaucBoot_proofs`. `TypeCorrect`, `BootBudget`: `TrialBudget` is not inductive, for what
  is on the card may be older than what the scripts see, and a power cut picks
  from both. The invariant `IInv` adds that *both* copies respect the budget, and
  that a script between two writes holds what it is about to write.
  `HalfWrittenStaysShut` is about every `InstallWhen` but `"any"` (section 6 says what
  that one breaks), with any cuts and torn files; `HalfInv` adds that
  no copy of `cmdline.txt` and no record names such a slot while nothing of
  `rauc.bootstate` is unsynced (`HalfShut`), and that an install runs beside a guard that
  has no trial to decide (`InstallAlone`).
  `ProtectedOnTrial`, `ScriptsRefineSlotUpdate` and `CardHasAWayBack` assume nothing of
  cuts and installs; what they except is the state `exposed`, which only the four named
  events bring about and a guard ends. `KeptInv` says at each place of the three scripts
  what the files hold and how the card differs, while nothing exposed it (`Ahead`,
  `WellKept`). Its hard cases are the step that ends an exposure, where a settled card
  must give the whole invariant back (`SettledIsKept`), and the cut that does not begin
  one: whatever mixture of old and new files is left has the names of one moment, and so
  is a state of the protocol. The refinement is proved step by step: each action is one
  of `SlotUpdate` or a stutter. `CleanRunsRefine` is the corollary for the conditions of
  `boot_clean`, under which nothing is ever exposed. `AlwaysAWayBack` is the promise of
  the abstract protocol alone, and `CardHasAWayBack` carries it over to the card.
- `OtaStatusClient_proofs`: `NeverSilent`, `StateShown`, `ClientTyped`. One lemma per
  member function says what it preserves; the invariant adds that an answer on its
  way belongs to the request in flight (`ReplyMatches`).
- `OtaBackend_proofs`: `Exclusive`, `OnlyVerified`, `CurrentIsApplied`,
  `InstallsAfterReboot`, `BackendTyped`. That two workers never run is not inductive
  alone, since the lock looks at the phase and not at the worker: `StatusIsOfJob` is
  what makes the check of the phase enough, and implies it. `Stages` ties what a worker may do to what it
  verified, and to `rauc` only while it waits for it: an install may outlive its process.
  `CurrentIsApplied` follows the version through the log and back at start
  (`OnlyApplied`); it assumes `SystemVersion \notin Commands`, since a config that names a
  command's version has it shown before anything is installed. `OnlyVerified` and
  `InstallsAfterReboot` are action properties. The second: a switched slot whose job
  neither failed nor died means a worker still on its way to the reboot (`RebootComes`). The types need that a worker's place fixes the phase and event shown
  (`StageShown`).
- `EventQueue_proofs`: `LostByRaceAlone`, `RepeatsNeedLostAnswers`, `QueueTyped`. Both
  properties count copies. The invariant says that no event is in two of the hands, the
  batch and the file (`OneCopy`), that one whose post was answered is in none of them
  (`AnsweredIsGone`), that whatever is held was reported (`HeldWasReported`) and that a
  batch is the first lines of the file until the file is removed (`BatchIsOfFile`).
- `Gear_proofs`: `OneGear`, `ShowsTheGear`, `GearTyped`. No reading is numbered above
  the cluster's (`Counted`), the last signal on its way is the cluster's own (`Latest`),
  and a cluster that has not started has nothing on its way (`Quiet`). That a sequence
  number stands for one gear (`OneGearPerSequence`) is proved and checked by no run.
- `MqttBridge_proofs`: `OffersTheLast`, `LastWordIsTheJobs`, `BridgeTyped`, for queues
  of any length, where the run has one place in each. Both properties are about an empty
  queue; the invariant says which message is the last of a queue that is not
  (`LastRelease`, `LastTold`), and that nobody but the one job of the outcome can add to
  it (`OneJob`, `Unmixed`).
- `BluetoothManager_proofs`: `FollowsTheManager`, `ControlsThePhone`, `SwitchesAreTrue`,
  `ManagerTyped`.
  While the notice that BlueZ stopped is in the queue the agent is not registered
  (`StopIsKnown`), because only a start of the head unit registers it.
- `Cluster_proofs`. `ShowsTheCluster`: the cluster's present values are last on the bus,
  in the answer or on the page (`Newest`); whoever was given data is subscribed, and a
  call under way is to the cluster that runs (`Subscribed`, `Asked`). `ChargeRises`: a
  higher voltage never shows a lower charge; with it that the pair of entries the loop of
  `voltageToSoC` looks for exists and that its clamp has nothing to do. `SumOfWindow`:
  what `getSoc` adds and takes away is the sum of the readings kept (`Total`), for windows
  of any length; `ClusterTyped`. `ShowsACharge`: the charge is one between those of the
  extreme voltages, since a mean is never outside of what it is the mean of. The last two
  need induction over the window. The library's induction theorem takes an
  operator and cannot be instantiated here; `SetInduction`, about a *set* of
  naturals that holds 0 and every successor, can, and comes from the well-foundedness of `<`
  on `Nat`.

Only model-checked: all liveness (`TrialEnds`, `JobEnds`, `HiddenGoesQuiet`,
`OfferShown`, `RecoversOnline`, `TakenIsDelivered`, `DrivenIsShown`, `PhoneServed`,
`ReconnectGivesUp`, `NobodyWaitsForEver`, `ChargeSettles`, `SeenAgain`), which TLAPS does
not do under fairness. Every invariant, every action property and both refinements that
the passing runs check are also theorems, under the hypotheses named above.

## 6. Where code and documents differ

| run | the document says | the code does |
|---|---|---|
| `boot_overlap` | the guard clears the pending state of the slot it found stable | it removes whatever `rauc.state` holds by then, the record of a newer install included |
| `backend_stuck` | a failed install is reported `failed` (ARCHITECTURE.md) | on a full `/data` the handler of the failure raises too, and the phase stays active |
| `bluetooth_tracks` | the player has the metadata of the connected phone (`bluetooth_audio_player.h`) | when a second phone takes over within one check, the path of the first one's player is kept, discovery returns at its head for ever, and the page shows the first phone's track |

Smaller differences, seen while modelling and not worth a run each. Both rollbacks
leave `rauc.bootstate` naming the slot that failed as primary, where ARCHITECTURE.md
calls `cmdline.txt` the one source of truth. A timeout of the health check restarts the
timer unless a flag, off by default, is set; the header of `rauc-mark-good.sh` says it
rolls back. `current_version` becomes the target's before the reboot, against the
comment at its inference, and no rollback takes it back. An answer of `/ota/status`
older than an announcement takes the offer back when the page is closed.

Limits of the protocol, without a sentence of the documents against them: the four
exposures of section 2. Each can take the way back from a trial, and none can be
left out: without any one of them in `exposed` TLC finds `TrialProtected` violated (for
the last one with `InstallWhen = "any"`). With all four, `boot_cuts` and the same run
with `"settled"` and `"any"` pass for `TrialProtected`. Power lost while `set-primary`
writes can boot the new slot without a record. The guard is ordered after
`headunit.service`, so that an install may finish before it reads `rauc.state`
(`"early"`): it then takes the new record for a stale one and removes it. A second
install before the reboot (`"any"`) writes the slot `cmdline.txt` already names; there
`NeverBootsHalfWritten` is lost too, which no other exposure does. Nothing in the scripts
prevents any of them.

What the backend adds to the last one is `InstallsWhenSettled`: with `reboot_after_apply`
it begins an install over a switched slot for three reasons only. The job that switched
failed afterwards (the verification after the write, or an event that a full disk
refused) and freed the backend; its process died before it asked for the reboot, and the
new one has no phase set; or rauc switched when the process that started it was gone.
`abandoned` names the three. The code does nothing against them, and `RaucBoot` with
`"any"` is what then follows.

A limit of the gear path, for the same reason: `SharedDriveMode.cleanup` unlinks the
segment when the controller ends, and the cluster maps a segment once, when it starts.
If the controller was not there yet (the units are not ordered) the cluster never sets
its timer; if the controller restarts, the cluster goes on reading the old word. Until
the cluster is restarted, by hand since its unit says `Restart=no`, what it shows no
longer follows the gamepad. `DrivenIsShown` therefore assumes `mapped = "live"`.

Limits of the bridge. A worker that dies in its except clause leaves the phase active,
and the heartbeat looks at the phase (`main.py:1462`): a device that the server then
holds for offline stays so until somebody restarts the service or the device.
`SeenAgain` excepts it as `Wedged`, and is violated without. The ten second filter looks at the release id alone: a version
that changes under the same id within ten seconds is dropped. A command that arrives
twice is refused the second time, and `failed` is published for the version that is
being installed; sent late enough it is the last thing the server hears of a job that
succeeded. Statuses of a job that runs while the link is down are dropped and never
repeated (the event queue, over HTTP, is what repeats). After a restart the device
sends no heartbeat until the next announcement, command or update request.
`ota_request_update` reads release and version in turn while an announcement writes
them in turn, so a request without a body can name one of each.

Limits of Bluetooth. If `bluetoothd` restarts before the manager's next check, the
player has let its phone go and the manager has not: `PlayerFollowsManager` excludes
this by `agentRegistered`, since the agent is not registered again either. A failed
`stopBroadcasting` shows *not broadcasting* over an adapter that everybody sees
(`SwitchesMatchAdapter` excludes the failed call by `unseen`), and so does a head unit
that starts while the adapter is discoverable and fails to make it connectable. The reconnect timer that
an adoption leaves running can undo the driver's disconnection within five seconds.
A head unit that starts before `bluetoothd` never finds the adapter. `removeSavedDevice`
leaves the device preferred. No QML page calls `setDeviceFavorite` or `setAutoReconnect`
today; the model lets the driver call both.

Limits of the cluster. A voltage that falls more than 30 mV below the last reading kept
is taken for a glitch for ever: the gauge holds the old charge (`ChargeSettles` names
the case). A head unit that starts before the cluster neither fetches nor subscribes,
and after a restart of the cluster it shows the old values until one changes.
`ACTIVE` written over `STOP` costs `closeCan` its `CLOSE_WAIT` and ends in
`QThread::terminate`; the `deleteLater` of the gateway then never runs. `closeCan`
compares a key of the map after erasing it, which is undefined and happens as the
process ends.

## 7. Not modelled

- A rootfs that panics before `sysinit.target` never runs `rauc-boot-check.sh`: the
  model has it (`dead`), and no property can promise its end, since the firmware
  counts nothing. The device stays there until somebody edits the card.
- `/ota/status` can answer with the phase of one step and the event of another;
  the client takes such a pair for one report and shows, at worst, *Failed* until its
  next poll. The run `client` sends it four pairs; what is proved of it holds for any.
- Power cuts of `/data` (a queue or log line that was not yet on storage).
- The retries inside one download; the Ed25519 and SHA-256 computations, which
  are their verdicts.
- `rauc-slot-switch.sh` (called by nothing), QML layout, recipes, tools, assets.
- Of Gear: what the reply of `RequestGear` says (it is only logged and shown), D-Bus
  timeouts, the effect of a gear on throttle and steering. An accepted request never
  reaches the controller, which has a `read_mode` and does not call it.
- Of Bluetooth: the saved list, the agent's dialogues (it accepts every request),
  album art, which may arrive for a track that has changed.
- Of the cluster: the INA219's registers and the conversion of its readings, the failed
  reading of -1 V (`Voltages` of the instance has none: with it the run takes too long),
  the Arduino's counting of pulses.
- The music player: its page `music.qml` is shown by no other page, so nothing can cause
  its operations. Weather: one request after another. Its handlers read `pendingReply_`
  and not `sender()`, so a `finished` queued for an aborted request consumes the next one.
- Of the MQTT bridge: the progress topic, the parsing and wording of payloads, a publish
  that paho sends again after a reconnect (the server gets it twice, in order).

## 8. Plan

1. `OtaSystem`: `OtaBackend` over `SlotUpdate`, so that `switched` and `running` become
   the abstract protocol's `active` and trial instead of the backend's own variables.
2. The failed battery reading, in an instance of its own.
3. Theorems: `OtaSystem` over `SlotUpdate` once it is there; that the rollbacks of the
   boot scripts end within `BootAttempts` boots, as a bound on a variant rather than as
   liveness; for the client, that every answer shown is newer than the last one shown.
