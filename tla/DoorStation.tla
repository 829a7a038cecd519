---------------------------- MODULE DoorStation ----------------------------
(***************************************************************************)
(* The door of the ESP32 reader: the relay that unlocks it, the reed that  *)
(* watches it and the buzzer that complains about it, as one system.  The  *)
(* va_door task carries what the reed saw to the relay and the buzzer;     *)
(* scans, commands and the exit button pulse the relay and beep; settings  *)
(* re-arm the drivers while all of that goes on; and Identity may reject   *)
(* the device key.                                                         *)
(***************************************************************************)
EXTENDS Relay, DoorContact, Buzzer

CONSTANTS
  Revocable,        \* TRUE when Identity may reject the device key
  Reconfigurable    \* TRUE when saved settings may re-arm the drivers

ASSUME RevocableAssumption == Revocable \in BOOLEAN
ASSUME ReconfigurableAssumption == Reconfigurable \in BOOLEAN

VARIABLES
  configured,   \* app::State: config_.configured
  seenOpen      \* history: the reed has read open since the last Pulse began

vars == <<relayVars, door, contactVars, buzzerVars, configured, seenOpen>>

RelayOnly == UNCHANGED <<door, contactVars, buzzerVars, configured>>

Init ==
  /\ RelayInit /\ ContactInit /\ BuzzerInit
  /\ configured = TRUE
  /\ seenOpen = (stable = "open")

-----------------------------------------------------------------------------
(* A task that opens the door, and the release timer *)

BeginPulse(t) ==
  /\ PulseDrive(t)
  /\ seenOpen' = (stable = "open")
  /\ RelayOnly

ReadDoor(t) ==
  /\ ~DoorLocked
  /\ PulseReadDoor(t, DoorIsOpen)
  /\ RelayOnly /\ UNCHANGED seenOpen

ArmRelease(t) == PulseArm(t) /\ RelayOnly /\ UNCHANGED seenOpen

CallerStep(t) == BeginPulse(t) \/ ReadDoor(t) \/ ArmRelease(t)

Fire == TimerFires /\ RelayOnly /\ UNCHANGED seenOpen
Release == ReleaseLine /\ RelayOnly /\ UNCHANGED seenOpen

-----------------------------------------------------------------------------
(* The door, and the va_door task *)

MoveDoor ==
  /\ DoorMoves
  /\ UNCHANGED <<relayVars, buzzerVars, configured, seenOpen>>

WatcherOnly == UNCHANGED <<relayVars, configured, seenOpen>>

PollReed ==
  /\ Poll
  /\ seenOpen' = (seenOpen \/ stable' = "open")
  /\ UNCHANGED <<relayVars, buzzerVars, configured>>

Publish == PublishHealth /\ WatcherOnly /\ UNCHANGED buzzerVars

(* An appliance that lost its key, or a contact disabled meanwhile, emits *)
(* nothing at all.                                                        *)
BeginEmit ==
  /\ \/ configured /\ EmitStep("emit", "cue")
     \/ (~configured \/ ~contact) /\ EmitRefused
  /\ WatcherOnly /\ UNCHANGED buzzerVars

EmitCue ==
  /\ EmitStep("cue", IF Head(events) = "held_open" THEN "post" ELSE "hook")
  /\ CASE Head(events) = "held_open" -> Enqueue("held_open")
       [] Head(events) = "closed" -> Enqueue("stop")
       [] Head(events) = "opened" -> UNCHANGED buzzerVars
  /\ WatcherOnly

EmitHook ==
  /\ EmitStep("hook", "post")
  /\ IF Head(events) = "opened" THEN OnDoorOpen ELSE OnDoorClosed
  /\ UNCHANGED <<buzzerVars, configured, seenOpen>>

PostAnswered == Posted /\ WatcherOnly /\ UNCHANGED buzzerVars

(* EnterSetupMode, which keeps the credentials when its save fails. *)
PostRejected ==
  /\ Revocable
  /\ PostUnauthorized
  /\ configured' \in {configured, FALSE}
  /\ UNCHANGED <<relayVars, buzzerVars, seenOpen>>

WatcherStep ==
  \/ PollReed \/ Publish \/ BeginEmit \/ EmitCue \/ EmitHook
  \/ PostAnswered \/ PostRejected

-----------------------------------------------------------------------------
(* The buzzer worker, and what the other tasks do to the three drivers *)

BuzzerOnly == UNCHANGED <<relayVars, door, contactVars, configured, seenOpen>>

BuzzerWorker == (TakeCue \/ PlayHeldOpen) /\ BuzzerOnly

(* The end of a scan, an exit press or a button gesture. *)
Beep == Enqueue("beep") /\ BuzzerOnly

(* EnterSetupMode on another task, and the claim that ends setup mode. *)
SetupMode ==
  /\ Revocable
  /\ configured' = ~configured
  /\ UNCHANGED <<relayVars, door, contactVars, buzzerVars, seenOpen>>

(* on_config_applied_ calls the three one after the other. *)
Reconfigure ==
  /\ Reconfigurable
  /\ \/ ConfigureRelay /\ RelayOnly
     \/ ConfigureContact /\ UNCHANGED <<relayVars, buzzerVars, configured>>
     \/ ConfigureBuzzer /\ UNCHANGED <<relayVars, door, contactVars, configured>>
  /\ seenOpen' = (seenOpen \/ stable' = "open")

Next ==
  \/ \E t \in Callers : CallerStep(t)
  \/ Fire \/ Release
  \/ MoveDoor
  \/ WatcherStep
  \/ BuzzerWorker \/ Beep
  \/ SetupMode
  \/ Reconfigure

Spec == Init /\ [][Next]_vars

(* Tasks keep running; the relay mutex is handed to whoever waits for it, so *)
(* each entry that needs it is strongly fair.  Nobody has to pulse the relay *)
(* or to move the door.                                                      *)
Fairness ==
  /\ \A t \in Callers : SF_vars(ReadDoor(t)) /\ WF_vars(ArmRelease(t))
  /\ WF_vars(Fire) /\ SF_vars(Release)
  /\ WF_vars(PollReed \/ Publish \/ BeginEmit \/ EmitCue \/ PostAnswered)
  /\ SF_vars(EmitHook)
  /\ WF_vars(BuzzerWorker)

FairSpec == Spec /\ Fairness

-----------------------------------------------------------------------------
(* Properties *)

(* Every variable ranges over the values the code can give it. *)
TypeOK ==
  /\ RelayTypeOK /\ ContactTypeOK /\ BuzzerTypeOK
  /\ configured \in BOOLEAN /\ seenOpen \in BOOLEAN

(* A closed event is still to be emitted, past none of these steps yet. *)
CloseToCome(done) ==
  \E k \in DOMAIN events : events[k] = "closed" /\ ~(k = 1 /\ watcher \in done)

(* Pulse "fail closed": an energised coil always has a release on its way,  *)
(* a timer that runs, a callback that waits for the mutex, or a Pulse that  *)
(* has yet to start the timer, whatever re-arms the driver or moves the     *)
(* door in between.                                                         *)
EnergizedIsReleased == active => armed \/ fired \/ RelayLocked

(* OnDoorClosed: an unlock that waits for the door to close cannot miss the *)
(* close: once the reed is stably closed the event is on its way, so only a *)
(* lost event leaves the door unlocked until the safety timeout.            *)
CloseReachesRelay ==
  active /\ phase = "waitingClose" /\ stable = "closed"
    => CloseToCome({"post"})

(* The held-open alarm never outlives the door: while it sounds, or is about *)
(* to, with the door closed, a cue that ends it is queued or to be emitted.  *)
AlarmHasStop ==
  (alarm \/ cue = "held_open") /\ stable = "closed"
    => cue \in {"stop", "beep"} \/ CloseToCome({"hook", "post"})

(* An unlock ends, unless somebody pulses the relay again. *)
UnlockEnds == active /\ ~RelayLocked ~> ~active \/ RelayLocked

(* Pulse returns: it holds the relay mutex while it takes the door mutex, and *)
(* the watcher goes the other way round.                                      *)
PulseEnds == \A t \in Callers : pulse[t] # "out" ~> pulse[t] = "out"

(* door_contact.cpp:109: the alarm repeats "until the door closes,           *)
(* independent of whether Identity accepted the event".                      *)
AlarmEndsWithClose == alarm /\ stable = "closed" ~> ~alarm \/ stable # "closed"

(* README.md:94 "Stay unlocked until reed open->close": what re-locks before  *)
(* the timeout is a close of a door that the reed saw open during this unlock; *)
(* a close that was still to be emitted when the unlock began does not count.  *)
UntilClosedHolds ==
  [][watcher = "hook" /\ watcher' = "post" /\ active /\ ~active' => seenOpen]_vars

=============================================================================
