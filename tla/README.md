# Formal model of the ViaAccess bridge

TLA+ models of the programs in this repository that decide who passes a door:
the ESP32 reader firmware (`install/qr-reader-firmware`) and the Frigate
bridge (`src/`). TLC checks the models on small instances; TLAPS proves the
main safety properties for every value of the constants. `PROJECT.json` maps
each definition to the source lines it models and lists the components, the
runs, the faulty variants, the hazards and the theorems.

In this document `main/` and `core/` stand for
`install/qr-reader-firmware/main/` and
`install/qr-reader-firmware/components/viaaccess_core/src/`; "firmware README" is
`install/qr-reader-firmware/README.md`.

## 1. The system

The reader hangs next to a door. It reads QR tickets (a serial scanner, or
HTTP), asks Identity (the ViaAccess server) to redeem them, and pulses a relay.
When Identity cannot be reached it verifies the ticket itself against a stored
policy (*contingency*), remembers the ticket as consumed, opens the door, and
reports the passage later from an outbox. A reed contact tells it whether the
door is open, a buzzer complains when it stays open, Identity edits its
settings and sends it commands, and a rejected device key sends it back to
setup, where it raises an access point with a portal. The Frigate bridge is a
separate Node process: it turns MQTT camera messages into VADP detections for
the API and keeps an outbox of its own.

| Component | State it keeps | Operations | Talks to | Hard part | What makes it correct |
|---|---|---|---|---|---|
| Passage decision (`main/scan_service.cpp`, `core/contingency.cpp`) | debounce, one scan per task | `Execute` on httpd and on va_reader | Identity (redeem), nonce store, outbox, relay, buzzer | two tasks run it at once; the answer may be lost | the door opens offline only after the ticket's consumption is durable, and once for each scan that asked before it was noted |
| Contingency store (`main/contingency_store.cpp`, `main/storage.cpp`) | consumed intents, outbox; each in memory and in a LittleFS document | `IsConsumed`, `MarkConsumed`, `EnqueueOutbox`, `PendingOutboxEvents`, `MarkOutboxFlushed` | scans, flush | remove-then-rename of a document, power cuts, failed writes | nothing that opened the door is forgotten; no passage is lost |
| Policy sync and flush (`main/sync_task.cpp`, `main/identity_client.cpp`) | batch in flight, reachability | policy fetch, outbox flush, SYNC | Identity, stores, `app::State` | lost answers, repeated batches | a posted passage leaves the queue only once recorded; every pending one is reported |
| Operation mode and clock (`core/mode.cpp`, `core/clock.cpp`, `main/clock_service.cpp`, `main/ds3231_driver.cpp`) | policy and its age, reachability, clock source, battery clock | `EvaluateOperationMode`, SNTP sync, boot | passage decision, va_policy, va_commands | half-written clock chips, overlapping syncs, link loss | the reader decides alone only with the right time and a fresh policy |
| Command loop and OTA (`main/sync_task.cpp`, `main/ota_update.cpp`, `core/commands.cpp`) | batch, restart flag, two firmware slots | poll, execute, acknowledge, download, restart | Identity, relay, `app::State`, bootloader | lost answers, restarts in a batch, rollback | answered once means run no more; what was reported done is what runs |
| Lock relay (`main/relay.cpp`) | coil, release timer, `until_closed` phase | `Pulse`, `OnDoorOpen`, `OnDoorClosed`, `ApplyConfig`, timer callback | scans, exit button, va_door | dispatched callbacks, re-armed drivers, nested mutexes | an energised coil is always released |
| Door contact (`main/door_contact.cpp`, `core/door_contact.cpp`) | debounce engine, held-open grace, step being emitted | poll, emit, `ApplyConfig` | reed, relay, buzzer, Identity | blocking posts between poll and effect | the close an unlock waits for is never lost |
| Buzzer (`main/buzzer.cpp`) | one-slot cue queue, alarm | cues, worker | door contact, scans | the slot is overwritten | the alarm ends with the close |
| Exit button (`main/exit_button.cpp`, `core/exit_button.cpp`) | debounce and cooldown engine, presses in hand | poll, `ApplyConfig`, `TriggerPress`, `SyntheticRex` | relay, BOOT button, HTTP | bounces, a pin that moves, three tasks that press | one press opens once; a stuck button never opens |
| BOOT button and factory reset (`main/service_button.cpp`, `core/service_button.cpp`, `main/storage.cpp`) | gesture engine, reset in progress | poll, announce, portal, reset | stores, exit button, portal | a reset without the state mutex, beside other saves | a reset was announced, and erases what was stored |
| Wi-Fi manager and portal (`main/wifi_manager.cpp`) | link, failures, hold, TTL and close timers, phase | Wi-Fi events, timers, clicks, claims | HTTP handlers, buttons, `app::State` | decisions under a lock that is released before they are carried out | the portal is up while it is owed and closes when it is not |
| Portal services (`main/captive_dns.cpp`, `main/http_server.cpp`, `main/ble_beacon.cpp`) | DNS task, HTTPS listener, beacon stack | follow the access point, settings, port | Wi-Fi manager | each learns of a switch later | each ends up where the access point wants it |
| Runtime configuration (`main/app_state.cpp`, `main/storage.cpp`, `main/http_server.cpp`, `core/config.cpp`) | config in memory, `config.json`, NVS key, ETag | `/setup` saves, remote overlay, `EnterSetupMode` | three tasks, drivers | copies read before the mutex, two stores, hooks after it | what runs is what is stored; drivers follow it; a rejected key is dropped |
| Frigate bridge (`src/main.ts`, `src/outbox.ts`, `src/frigate/`) | presence sessions, outbox file, flush in progress | translate, forward, enqueue, flush | MQTT, API, file system | awaits between read and rewrite, late messages, restarts | motion is one session whose detection is reported; order kept, nothing lost, bounded retries |
| PIN lock-out, line buffer, status LED, Go agent | | | | | not modelled, see section 7 |

The parts meet in few places, and those are where the hazards are: the nonce
store and outbox between the two scan tasks and the flush; the relay between
the tasks that pulse it, the timer task and va_door; `app::State` between httpd,
va_policy and va_commands, and its files also with va_boot_btn; the access
point between sys_evt, esp_timer, httpd and va_boot_btn; the outbox file
between the MQTT chain and the flush timer.

## 2. Modules

| Module | Models | Notes |
|---|---|---|
| `OfflinePassage` | scans, nonce store, outbox, flush, setup mode, power cuts | one action per step between two points where another task can run; a mutex is the set of steps that hold it |
| `TicketUse` | abstract: who is admitted with a ticket, when its consumption is noted and for whom it opens | `OfflinePassage` implements it, with any number of scan tasks |
| `Relay`, `DoorContact`, `Buzzer` | one driver each, its own variables and actions | an action names the driver function or the part of it under one mutex |
| `DoorStation` | composes the three: who calls whom, in which order, and what each leaves alone | extends the three modules |
| `RuntimeConfig` | the configuration, its two stores and the tasks that save it | |
| `OperationMode` | policy age, clocks and the mode, with two tasks that sync | |
| `CommandLoop` | polls, batches, acknowledgements, OTA slots, restarts | |
| `RemoteOrder` | abstract: the life of a remote command, ordered, taken, carried out, answered | `CommandLoop` implements it |
| `ApMode` | `SetApMode`, step by step | what `WifiPortal` and `PortalServices` share |
| `WifiPortal` | station events, timers, clicks, claims and the portal | |
| `PortalServices` | DNS, HTTPS and beacon behind the access point | |
| `ServiceButton`, `ExitButton`, `FactoryReset` | the two engines with their watchers, and the reset against other saves | |
| `Buttons` | composes the three under one clock | |
| `FrigateOutbox` | the bridge's forwarding and its outbox | serves as the abstract specification of `FrigateBridge` |
| `FrigateBridge` | messages, presence sessions and the loop over a message's detections, on top of the outbox | implements `FrigateOutbox` |
| `MC*` | definitions that instances need: symmetry sets, the mappings | |
| `*Proofs` | theorems and proofs of the module they are named after | `FrigateBridgeProofs` also those of `FrigateOutbox`, `PortalProofs` those of `WifiPortal` and `PortalServices` |

Correspondence with the code:

* **`OfflinePassage`**. `pc[w]` is where a task is inside `Execute`; `nonce`,
  `outbox` are the in-memory stores and `nonceDoc`, `outboxDoc` the documents.
  `WriteFileAtomic` is two steps: the old document is removed (`Gone`), then the
  temporary file takes its place (`Saved`). `known` is what Identity has
  recorded. A ticket stands for its intent ID; every check of its contents may
  fail (`Verify` may refuse any scan), so signature, expiry and after-hours
  rules do not appear. Identity's answers are enumerated: accepted, refused,
  unavailable, and a lost answer to a request that took effect.
* **`Relay`**. `pulse[t]` splits `Pulse` at the call of `door_contact::is_open`,
  which takes the door mutex while the relay mutex is held. `armed` is the
  running timer, `fired` a callback that esp_timer dispatched and that waits for
  the mutex: `esp_timer_stop` does not recall it.
* **`DoorContact`**. `door` is the real door, `stable` what the engine last
  committed; `events` is the `DoorContactStep` that `Emit` still has to work off,
  and `watcher` the place of the va_door task in it. Debounce windows and the
  held-open grace are abstract time: one that runs may elapse at any poll.
* **`Buzzer`**. `cue` is the one-slot queue, `alarm` the repeating held-open cue.
* **`RuntimeConfig`**. `draft[t]` is the copy a task built before it takes the
  state mutex. A configuration is reduced to what the properties tell apart:
  configured, device key, version of Identity's settings, local wiring. A save
  is remove, rename, NVS, memory, hook; a reset is the same without the hook.
* **`OperationMode`**. A date is an age in ticks against `MaxStale`, a clock is
  unset, behind or right. `setting` is where `OnSntpSync` is: the state's clock
  comes first, then the registers of the chip, then its stop flag. `Boot` is a
  power cut, with a cell that may be empty and registers that may be unreadable.
* **`CommandLoop`**. `orders` is what Identity holds of each command; `batch`,
  `result` and `rebootAfterAck` are the locals of `CommandLoop`; `runs`, `spare`
  and `next` are the firmware slots. An image is its version, or "wrong" or "broken".
  `esp_ota_begin` may or may not forget a slot that was chosen before. `UNLOCK`
  and `SYNC` appear by their answer, `RESET` by the key it drops.
* **`ApMode`, `WifiPortal`, `PortalServices`**. `call[t]` is where a task is in
  `SetApMode`, which reads and writes the mode without a lock of its own.
  `events` are Wi-Fi events that wait for sys_evt; `goal[t]` is what a task does
  once its call returns. `dns`, `https` and `stack` are the states of the three
  services, `starter` each beacon start and `timerAt` the esp_timer task in
  `ApplyLanHttps` or in a restart of the listeners.
* **`Buttons`**. A tick is one poll period; each watcher that is not busy
  samples once per tick. `gestures` and `rex` are the two engines, with the
  windows counted in ticks. `resetAt` is the step of the factory reset and
  `save` the steps of an overlapping save: temporary file, remove, rename, NVS.
  A removal may fail and be ignored, as `std::remove` is, in a save as in
  `WipeProvisioning`; a short or missing file reads as no settings. Of NVS only the
  device key is kept: no check of the reset looks at the Wi-Fi password.
  Each of the two reads of the read-back and the two halves of the wipe (the
  document; temporary file and NVS) is a step of its own. Reading what is
  stored does not fail.
* **`FrigateOutbox`**. Detections are numbered in order of arrival. Every `await`
  of `processMqttMessage` and of `Outbox.flush` is a point where the other may run.
* **`FrigateBridge`**. A message is the set of mappings its motion concerns
  (`Motions` enumerates those that the code's rules can produce) and a frame
  time, at most `Late` behind the latest one. `sessions` is the Map of
  `presence-session.ts`, `events` what is left of the loop over a message's
  detections; a failed append throws out of the loop (`LeavesLoop`).

Variables whose comment says *history* are not in the code; they record the past
for the properties.

**Faulty variants.** Some modules define, before an operator, a variant of it
that a slip in the code would produce (`VerifyUnchecked`, `LockedForDoc`,
`EmittedSwapped`, ...). No action uses them. Put in the place of the operator
they make TLC report the property they are listed with in `PROJECT.json`
(`mutants`), which shows that the property can tell right code from wrong.

## 3. Runs

| Run | Instance | Properties | What it shows |
|---|---|---|---|
| `OfflineSafety` | 2 tasks, 1 intent, power cuts | `OpenedStaysConsumed`, `ImplementsTicketUse`, `PostedThenRecorded` | Whatever write fails or wherever the power is cut, a ticket that opened the door is still refused after the reboot, except when the document itself was lost between remove and rename. Two scans of one ticket both open only if both asked before either noted it; no later scan opens, and no task twice. |
| `OfflineProgress` | 2 tasks, 1 intent, fair | `PendingIsReported`, `ScanEnds` | No interleaving of the two mutexes blocks a scan or the flush, and pending passages are reported. |
| `DoorSafety` | 2 callers, revoked keys, re-armed drivers | `EnergizedIsReleased`, `UntilClosedHolds` | Fail closed: a coil never stays energised with nothing on its way to release it. An early re-lock follows an opening the reed saw during the unlock. |
| `DoorNominal` | 2 callers, key and settings fixed, fair | `CloseReachesRelay`, `AlarmHasStop`, `UnlockEnds`, `PulseEnds`, `AlarmEndsWithClose` | Events reach relay and buzzer in an order that loses neither the close nor the stop; the opposite lock orders of `Pulse` and va_door do not deadlock. |
| `ConfigStored` | 3 tasks, 1 key, 2 wirings, failures, power cuts | `StoredIsLive`, `DriversFollowConfig` | Memory, `config.json` and NVS agree whenever nobody saves and the last save did not fail halfway. |
| `ConfigRevoked` | 3 tasks, 1 key, failing writes, fair | `RevokedIsDropped` | A refused key is dropped for good, although writes fail and stale copies bring it back in between. |
| `OperationMode` | `MaxStale` 1, 2 syncing tasks, fair | `OfflineIsTimely`, `IdentityOutageShows`, `BackOnline` | The reader decides alone only with the right time and a fresh policy, through power cuts, empty cells and half-written chips; it notices that Identity is gone and that it is back. |
| `CommandLoop` | 2 commands of any kind, fair | `ImplementsRemoteOrder`, `OrderedImagesOnly`, `DoneUpdateRuns`, `CommandsAnswered` | Commands are carried out one at a time and told of with their outcome. Lost answers, failed downloads, restarts and rollbacks neither repeat an answered command nor start an image nobody ordered, and every command is answered. |
| `WifiPortal` | 3 tasks, 2 failures, 1 event waiting, fair | `PortalKept`, `NeverLingers`, `PhaseIsHonest`, `OfflineReachable` | The portal stays up while it is owed, is about to be closed when it is not, and an offline reader ends up reachable. |
| `PortalServices` | 2 tasks, 1 beacon start | `HttpsFollowsPortal`, `DnsFollowsPortal`, `BeaconYields` | HTTPS, DNS and beacon end up where the last access point mode wants them, whatever overlaps. |
| `Buttons` | debounce 1, windows of 1 to 3 ticks | `ClicksAnswered`, `NoRefire`, `ResetIsWarned`, `ResetErases` | Bounces, holds, remote presses and moved pins fire once per press; a reset was announced. The reader restarts from it without settings and key, although writes and removals fail and other tasks save in between, except in a store that refused the last wipe or was written after the reset last looked at it. |
| `FrigateBridge` | 2 detections, 2 attempts, 2 mappings, gap 2, messages late by 1, 6 frames, failures, restarts, fair | `QueueInOrder`, `Accounted`, `DroppedAfterRetries`, `SuppressedIsReported`, `QueueDrains`, `OneSessionAtATime` | Motion is one session and its detection is reported; the file keeps its order, a flush loses nothing it holds, and retries are counted across restarts. |

**Bounds.** Two tasks and one intent are all a replay between tasks needs: the
stores do not relate different intents, so a second one only matters for the
flush, whose batch may be known in part (`OfflineTwoTickets.cfg` has two). The
code has two scan tasks. Two callers suffice for the relay: `Pulse` keeps one in the mutex
while another waits. One device key is enough to tell a key that was written from
one that was not; two wirings tell an old setting from a new one, which only
`DriversFollowConfig` needs. `MaxVersion` lets Identity edit its settings.
`MaxStale` = 1 gives a policy every relation to the limit: new, at the limit, too
old, none. Two commands have every pair of actions in one batch, in either
order and twice the same; `CommandLoopThree.cfg` checks three. `MaxEvents` = 1 keeps
one Wi-Fi event waiting while another is handled; `FailuresBeforePortal` = 2 has
a failure that raises the portal and one that does not; a third task besides
sys_evt and esp_timer stands for a click, a handler or a rejected key that
comes in between. Two calls of `SetApMode` show every overlap of one that
raises with one that lowers. The windows of the buttons are the shortest that
keep debounce, warning, reset, click window and cooldown apart.
Two detections have one being sent or kept while another arrives
(`OutboxKept.cfg` has three, without sessions), `MaxAttempts` = 2 reaches both a retried
and an exhausted entry; six frames hold two sessions of gap two and a late
message in each. The proofs have none of these bounds. The symmetry sets
permute only model values that no definition names, and are used in runs
without liveness properties.

Deadlock is checked in every run but `CommandLoop`, where the reader may wait for
ever once every command the instance has was answered.

**Further configurations.** These `.cfg` files belong to no run of
`PROJECT.json`; each is checked with `tlc -config <cfg> <module>`.

| Configuration | Module | Shows |
|---|---|---|
| `OfflineTwoTickets` | `MCOfflinePassage` | the properties of `OfflineSafety` with two intents and one task |
| `OfflineProgressCuts` | `MCOfflinePassage` | the properties of `OfflineProgress` with power cuts, which come to an end |
| `OutboxKept` | `FrigateOutbox` | the outbox alone, with three detections |
| `CommandLoopThree` | `CommandLoop` | the invariants with three commands |
| `WifiPortalTypes`, `ButtonsTypes` | `WifiPortal`, `Buttons` | the type invariants, which no run lists because theorems state them |
| `OfflineReplayTwoTasks`, `OfflineLostPassage`, `DoorAlarmRejected`, `ConfigKeyReturns`, `OutboxOvertaken`, `ModeOutage`, `CommandMismatch`, `ButtonsUnwatched`, `ResetOvertaken` | see section 6 | a property that the code does not have: TLC reports a violation |

## 4. Fairness

* `OfflinePassage`: every FreeRTOS task keeps running, and a mutex is handed to
  its waiters in order, hence strong fairness of a worker's and of the flush's
  steps. `SF(FlushDelivered)` says that a post repeated for ever is answered once:
  without it nothing about delivery can hold. The power does not fail for ever.
* `DoorStation`: the same for `Pulse`, the timer callback and va_door; no fairness
  for the people: nobody has to scan or to move the door.
* `RuntimeConfig`: saves progress, a policy request repeated every minute is
  answered now and then, a write that is tried again does not fail for ever, and
  power cuts come to an end. Nobody has to open `/setup`.
* `OperationMode`: `PolicyLoop` polls every minute, its requests end (they have a
  timeout), and Identity, while it is up, answers a repeated request some time.
  Nothing is assumed of SNTP, of commands or of the power.
* `CommandLoop`: va_commands is scheduled, polls and downloads end, and an answer
  sent again and again is taken at last. That downloads end is an assumption: the
  loop at `main/ota_update.cpp:180` has no deadline of its own.
  `CommandsAnswered` gives up if power cuts never end.
* `WifiPortal`: tasks run, esp_timer dispatches what is due, and the radio answers
  an attempt, with success or failure. Nobody has to click or save.
* `FrigateOutbox` and `FrigateBridge`: the interval timer keeps firing and awaited
  calls return. A file system that may fail does not fail always, and restarts
  come to an end. Nothing is assumed of Frigate's messages.

`PortalServices` and `Buttons` have safety properties only.

## 5. Proofs

The theorems hold for all tasks, intents, keys, wirings, commands, detections,
mappings and bounds, under the named `ASSUME`s of the modules only (`NoIntent` is
no intent, there is a wiring, sets of commands and mappings are finite, bounds are
naturals).

| Theorem | Statement | Argument |
|---|---|---|
| `OfflinePassageProofs!TypeCorrect` | `TypeOK` | inductive as it stands |
| `DurableBeforeOpen` | `OpenedStaysConsumed`, for any number of tasks | The property alone is not inductive: `MarkedIsStored` says that a task past `ReplaceNonce` stored its intent, `DocumentInMemory` that a stored document never holds more than memory does |
| `OpensOncePerTask` | `NoTaskOpensTwice`, for any number of tasks | inductive with `MarkedIsStored`: a task that opened the door with a ticket finds it consumed and is not admitted again |
| `ImplementsTickets` | every step maps to a step of `TicketUse` or a stutter, for any number of tasks | refinement mapping `TicketState`: admitted are the tasks past `Verify`'s nonce check. `TaskMoves` says what the step of one task does to the admitted of every ticket; a power cut maps to `Restart` or `Forget`, depending on whether the document was there |
| `PostedEventsRecorded` | `PostedThenRecorded` | the queue is cleared only from a step at which the whole batch is known |
| `DoorStationProofs!TypeCorrect`, `FailClosed` | `TypeOK`, `EnergizedIsReleased` | needs that the relay mutex has one holder and that a driver in use is ready |
| `UntilClosedIsKept` | `UntilClosedHolds`, for any settings and a key that may be rejected | `CycleInv`: a cycle that waits for the close has seen the door open since its `Pulse`, or no close is among the events to emit |
| `CloseIsNeverLost`, `AlarmIsStopped` | `CloseReachesRelay`, `AlarmHasStop`, key and settings fixed | `EventsMatch`: what is left to emit agrees with the state the engine reached |
| `RuntimeConfigProofs!TypeCorrect`, `StoredMatchesLive` | `TypeOK`, `StoredIsLive` | `OneWriter` (mutual exclusion) and `DocIsDraft` (by the time NVS is written the document is the draft) |
| `DriversMatch` | `DriversFollowConfig` | `HookIsCurrent`: without overlap the one hook that is due carries the running wiring; `ResetKeepsWiring` |
| `OperationModeProofs!TypeCorrect`, `TimelyOffline` | `TypeOK`, `OfflineIsTimely` | `ChipVouches`: a chip whose stop flag is clear has the right time, also while its registers are written; `ClockIsRight`: a clock with a source is then right |
| `CommandLoopProofs!TypeCorrect`, `AnsweredOnce` | `TypeOK`, `NotRunOnceDone` | the batch is a sequence without repetition of pending commands, and `AckCommand` takes off its head |
| `ImplementsOrders` | every step maps to a step of `RemoteOrder` or a stutter | refinement mapping `Life`, `Told`: a command is taken while it is in the batch and carried out while its answer is due; with `NotRunOnceDone` a batch holds nothing that was answered, and each command once. A download maps to a stutter, a restart to `Interrupted` |
| `OnlyOrderedImages`, `DoneMeansRunning` | `OrderedImagesOnly`, `DoneUpdateRuns` | `Honest`: the answer that is being sent is the right one; `RestartIsDue`: a chosen slot is started before the next poll; `ImagesAreGood`: what runs, is chosen or is on trial was ordered; `Known`: what runs or is chosen is what Identity was told, or asked for in an order whose answer is still to come |
| `PortalProofs!TypeCorrect`, `HttpsFollows`, `DnsFollows`, `BeaconPausedByPortal` | `TypeOK`, `HttpsFollowsPortal`, `DnsFollowsPortal`, `BeaconYields` | `SwitchesAreWanted`: only a call that raises or lowers comes to the switch; `HttpsIsDue` and `DnsIsDue`: a service in the wrong state has a call, a timer or a read under way; `BeaconPaused`: the pause holds from the decision to raise the portal on |
| `WifiTypeCorrect`, `PhaseStaysHonest` | `WifiTypeOK`, `PhaseIsHonest` | inductive as they stand |
| `PortalIsKept`, `PortalIsClosed` | `PortalKept`, `NeverLingers` | They speak only of moments when no task is at work. `PortalOffered` and `PortalCloses` say who makes them true until then: a task on its way to raise the portal (`Raises`), a timer, or a task on its way to lower it (`Lowers`). `OneSwitch`: unless `SetApMode` was crossed, a failed or late switch cannot undo another. `MoveOffers` and `MoveCloses` reduce each step to the one task that takes it |
| `ButtonsProofs!TypeCorrect`, `NoClickForgotten` | `TypeOK`, `ClicksAnswered` | `BootInv`: the ranges of the gesture engine's counters; clicks are counted only with the window open or the button held |
| `OneOpeningPerPress` | `NoRefire` | `ExitRemembers`: an armed engine was read up since it fired, and what is left of the cooldown and what has passed of it are together at least the whole |
| `NoResetUnwarned` | `ResetIsWarned`, where the warning is due before the reset | `HoldIsWatched`: a hold that was not announced is not older than the warning. `service_button.hpp:27-29` has 2 s and 5 s, and `main/service_button.cpp` runs the engine with these defaults |
| `ResetLeavesNothing` | `ResetErases` | `ResetIsDone`: a store that the reset has read back or wiped for the last time (`Seen`) is empty of settings or key, or refused, or was written since |
| `FrigateBridgeProofs!TypeCorrect`, `NoEarlyDrop`, `QueueAccounted` | `TypeOK`, `DroppedAfterRetries`, `Accounted` | `AttemptsWereMade`: the attempts in any copy of an entry were failed sends; `InHand`: while a flush holds a copy, every queued detection is left to send, kept for the rewrite, settled, or was appended meanwhile |
| `QueueOrdered` | `QueueInOrder` | the order of the file alone is not inductive: `InOrder` adds the order of the flush's two copies, that what it keeps lies before what it has not sent (`AllBefore`), and that an entry is older than the detection in hand (`Queued`) |
| `ImplementsOutbox`, `OutboxKeptInBridge` | `BridgeSpec => Spec`; with it `QueueInOrder`, `Accounted` and `DroppedAfterRetries` in the bridge | every step of the bridge is a step of the outbox or leaves its variables alone |
| `SuppressedReported`, `MotionIsOneSession` | `SuppressedIsReported`, `OneSessionAtATime` | `NearlyCurrent`: the last activity of a session is behind the latest motion by no more than messages are late |

Every safety property of a run is a theorem. Only model-checked: the liveness
properties, because fairness and `ENABLED` are out of the prover's reach. Recursive
definitions over data have no part in these models, so no induction over data is
needed.

## 6. Disagreements found

Each of these has a configuration with which TLC shows a behaviour of the code
that contradicts what the repository says of it.

| Configuration | Property | What the code does | What the repository says |
|---|---|---|---|
| `OfflineReplayTwoTasks` | `NoOfflineReplay` | `Verify` asks and marks the nonce store in two critical sections (`core/contingency.cpp:316`, `349`): two scans of a ticket on different tasks both pass | `contingency.hpp:21-22`: "NonceStore tracks consumed intent IDs so a ticket cannot be replayed while Identity is unreachable" |
| `OfflineLostPassage` | `PassagesReachIdentity` | a flush clears the whole queue (`main/sync_task.cpp:83`), also what was queued during the post | `main/sync_task.cpp:81-82`: "skipped rows are already recorded server-side" |
| `DoorAlarmRejected` | `AlarmEndsWithClose` | `Emit` returns early once the key is rejected (`main/door_contact.cpp:94`), and nothing stops the alarm after the close | `main/door_contact.cpp:109-110`: "repeat until the door closes, independent of whether Identity accepted the event" |
| `ConfigKeyReturns` | `SyncNeverProvisions` | a settings overlay built before `EnterSetupMode` is saved after it, with the dropped key (`main/sync_task.cpp:118`) | `main/sync_task.cpp:33-35`: "drops its credentials and reopens /setup instead of retrying with a key that will never work again" |
| `OutboxOvertaken` | `QueuedIsKept` | the flush replaces the file by its copy (`src/outbox.ts:55`), without what was appended meanwhile | `src/README.md:59`: "Fila de retry quando a API está offline" |
| `ModeOutage` | `NetworkOutageShows` | reachability changes only at the end of a sync, and a reader without a link does not sync (`main/sync_task.cpp:148`): the mode stays ONLINE | firmware README:562-564: "a network outage exercising `CONTINGENCY` (fresh policy + trusted clock) or `SYNC_STALE`" |
| `CommandMismatch` | `MismatchNeverStarts` | a second UPDATE of the same batch overwrites the slot the first one chose; its mismatch does not take the choice back where `esp_ota_begin` kept it | firmware README:636: "Aborts without changing the boot partition on SHA-256 mismatch or write error" |
| `ButtonsUnwatched` | `ReadyIsWatched` | `Start` with a pin that cannot be configured returns before it creates the watcher (`main/exit_button.cpp:188-201`; the door contact has the same order, `main/door_contact.cpp:192-205`), and a later save that repairs the pin leaves the driver ready and unwatched | `main/app_main.cpp:131-133`: a save re-arms the drivers in place |
| `ResetOvertaken` | `ResetIsSaved` | another task's save that renames its document after the read-back, or after the last wipe, puts settings back before the reader restarts (`main/service_button.cpp:98-115`) | `main/service_button.cpp:116`: "factory reset saved; release BOOT to reboot" |

Met while modelling, described here and visible in the models as the exception a
property makes or a behaviour it does not exclude:

*Passages and policy*

* A power cut between remove and rename empties the consumed intents
  (`main/storage.cpp:66`): `ImplementsTicketUse` and `OpenedStaysConsumed` except
  the intents in `nonceLost`. The firmware README:579 calls such writes atomic.
* A ticket redeemed online is not marked locally (`main/scan_service.cpp:152`) and
  passes the offline check a moment later.
* Two overlapping syncs may put the older policy back, and share one temporary
  file (`main/storage.cpp:231`). The policy, in memory and on flash, outlives the
  key it was fetched with.

*Door*

* A release callback dispatched before a new `Pulse` releases the new unlock at
  once (`main/relay.cpp:142`): a step `Release` with `armed`.
* `Pulse` decides on the last committed reading (`main/relay.cpp:147`): the
  door may be closed already, and `UntilClosedHolds` speaks of the reading.
* Any cue ends the held-open alarm (`main/buzzer.cpp:112`), a scan's beep included:
  `AlarmHasStop` counts `beep` as an end.

*Configuration and buttons*

* A power cut between `config.json` and NVS boots a mixture of two configurations
  (`main/storage.cpp:167`): `StoredIsLive` except while `Locked`.
* The ETag is stored before the settings (`main/sync_task.cpp:105`), so a save
  of an older copy leaves them behind until Identity edits them again.
* The hooks of two saves may run in the other order (`main/app_state.cpp:143`):
  `DriversFollowConfig` except when `crossed`.
* The factory reset takes no mutex: what another task writes to a store after the
  reset last looked at it survives the restart (`ResetErases` except for `late`).
* `WipeProvisioning` ignores what `std::remove` answers (`main/storage.cpp:198-199`)
  and `FactoryResetAndReboot` ignores the wipe (`main/service_button.cpp:103`, `109`):
  with a flash that refuses to the end the reader says that the reset is saved and
  restarts with what it had (`ResetErases` except for `refused`).
* A save of the settings starts the exit button's engine anew: its cooldown is
  forgotten, and with it what `NoRefire` remembers.
* A hold of BOOT that is released between the warning and the reset counts as a
  click, although `service_button.hpp` describes the hold as leaving the click path.
* `HandlePress` works on a copy of the settings: a press asked for before a key
  was rejected still pulses the relay.

*Portal*

* `PortalTtlFired`, `DismissPortal` and the close timer decide under the lock and
  close after it. A claim that ends after GOT_IP stops the TTL with the portal
  still open (`main/wifi_manager.cpp:589`): `NeverLingers` except when `loose`. A close
  callback already dispatched lowers a portal that was forced meanwhile.
* Two tasks inside `SetApMode` may leave an unprovisioned reader without a portal
  until the next event: `PortalKept` except when `crossed`.
* A beacon start that looked before the portal was raised advertises beside it
  (`BeaconYields` except when `late`), and a refresh of the DNS may act on an older
  mode (`DnsFollowsPortal` except when `stale`).

*Commands and OTA*

* A command whose answer was lost is executed again: UNLOCK opens twice.
* RESET is acknowledged before `EnterSetupMode`, whose save may fail
  (`main/sync_task.cpp:180-183`); commands behind it in the batch run with the old
  settings.
* An UPDATE reported done may be rolled back, or be overtaken by another UPDATE of
  the batch: `DoneUpdateRuns` except when `excused`.
* The firmware README:638 has the image confirmed "after Wi-Fi/HTTP are up";
  `MarkFirmwareValid` (`main/app_main.cpp:79`) does not wait for Wi-Fi.

*Bridge*

* Late messages move the last activity of a session back, so a second session may
  open up to `Late` early: `OneSessionAtATime` has that margin.
* An append that fails throws out of the loop over the detections (`src/main.ts:133`),
  and the sessions they opened stay mute until the gap has passed:
  `SuppressedIsReported` except for `muted`.
* A torn line in the outbox file, as a crash during an append may leave, makes
  every later flush fail in `JSON.parse` (`src/outbox.ts:74`). The model's appends
  are whole.

## 7. Not modelled, and why

Ticket contents, HMAC and expiry, JSON, URL and time formatting: functions of one
value without state, most of them with host tests. Pruning of old intents: a run
of the model is shorter than the retention. Beep patterns, the status LED, log
texts: output only; the phase and the mode that the LED shows are checked. Pulse
widths, poll delays, held-open graces: abstract time, any of them may elapse at
any step; the windows of the buttons are counted in ticks, because their order
is the point. Network retries inside one HTTP request: one answer, or none. A `std::remove` that fails inside
`WriteFileAtomic` makes the rename after it fail, by the comment there
(`main/storage.cpp:63`), so `OfflinePassage` and `RuntimeConfig` have it as a failed
write. The second that `captive_dns::Start` waits for an old task is one step with
its outcomes; timers that cannot be created are in the relay's model, not in the
Wi-Fi manager's.
Wi-Fi scans and credentials: they decide whether an attempt succeeds, which the
model leaves open. The PIN of `/setup` and its lock-out: a counter under one
mutex, next in the plan. The serial reader: a complete line is a scan. The Go
agent: the firmware's predecessor on Linux, with the same protocols. The hardware
designs, web pages and deployment scripts hold no program state.

## 8. Plan

1. The PIN lock-out of `/setup`, with the two servers whose handlers check it.
2. The Go agent: its scan handler, nonce store and outbox against `TicketUse`; its
   door contact and exit button against the properties of `DoorStation`. Where the
   two implementations differ is the point.
3. The line buffer as a pure function against a reference definition.
