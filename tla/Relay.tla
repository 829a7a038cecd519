------------------------------- MODULE Relay -------------------------------
(***************************************************************************)
(* main/relay.cpp: the lock relay, its one-shot release timer and the      *)
(* mutex every entry point takes.  Pulse is called by several tasks and    *)
(* keeps the mutex while it asks door_contact::is_open(), which takes the  *)
(* door mutex.                                                             *)
(*                                                                         *)
(* The actions constrain the variables of this module only; DoorStation    *)
(* composes them with the door contact and the buzzer.                     *)
(***************************************************************************)
CONSTANT Callers    \* tasks that call relay::Pulse

VARIABLES
  ready,        \* g_ready
  untilClosed,  \* g_config.unlock_mode is until_closed
  active,       \* g_active: the coil is energised
  phase,        \* g_until_phase
  pulse,        \* where each caller is inside Pulse, which holds the mutex
  armed,        \* g_release_timer is running
  fired         \* esp_timer took the alarm; ReleaseLine waits for the mutex

relayVars == <<ready, untilClosed, active, phase, pulse, armed, fired>>
lineVars == <<ready, untilClosed, active, phase>>

Phases == {"idle", "waitingOpen", "waitingClose"}

RelayLocked == \E t \in Callers : pulse[t] # "out"

At(t, step) == pulse' = [pulse EXCEPT ![t] = step]

DriveIdle == IF ready THEN active' = FALSE /\ phase' = "idle"
             ELSE UNCHANGED <<active, phase>>

RelayInit ==
  /\ ready \in BOOLEAN /\ untilClosed \in BOOLEAN
  /\ active = FALSE /\ phase = "idle"
  /\ pulse = [t \in Callers |-> "out"]
  /\ armed = FALSE /\ fired = FALSE

(* Re-arms the driver: pin, polarity, width or unlock mode moved.  Disabled, *)
(* or a pin that cannot be claimed, leaves it not ready.                     *)
ConfigureRelay ==
  /\ ~RelayLocked
  /\ armed' = FALSE
  /\ DriveIdle
  /\ ready' \in BOOLEAN /\ untilClosed' \in BOOLEAN
  /\ UNCHANGED <<pulse, fired>>

(* The alarm leaves the timer list before its callback runs, so a stop or a *)
(* restart from here on does not recall it.                                 *)
TimerFires ==
  /\ armed /\ ~fired
  /\ armed' = FALSE /\ fired' = TRUE
  /\ UNCHANGED <<lineVars, pulse>>

ReleaseLine ==
  /\ fired /\ ~RelayLocked
  /\ fired' = FALSE
  /\ IF active THEN DriveIdle ELSE UNCHANGED <<active, phase>>
  /\ UNCHANGED <<ready, untilClosed, pulse, armed>>

PulseDrive(t) ==
  /\ ready /\ ~RelayLocked
  /\ armed' = FALSE
  /\ active' = TRUE
  /\ At(t, IF untilClosed THEN "readDoor" ELSE "arm")
  /\ phase' = IF untilClosed THEN phase ELSE "idle"
  /\ UNCHANGED <<ready, untilClosed, fired>>

(* Faulty variants of the four steps below: the door is taken to be open, a *)
(* timer that cannot be started is ignored, the timeout ends with the open,  *)
(* any close re-locks.                                                       *)
PulseReadDoorUnseen(t, doorIsOpen) ==
  /\ pulse[t] = "readDoor"
  /\ phase' = "waitingClose"
  /\ At(t, "arm")
  /\ UNCHANGED <<ready, untilClosed, active, armed, fired>>

PulseArmUnchecked(t) ==
  /\ pulse[t] = "arm"
  /\ armed' \in {TRUE, armed} /\ UNCHANGED <<active, phase>>
  /\ At(t, "out")
  /\ UNCHANGED <<ready, untilClosed, fired>>

OnDoorOpenDisarms ==
  /\ ~RelayLocked
  /\ IF ready /\ active /\ untilClosed /\ phase = "waitingOpen"
     THEN phase' = "waitingClose" /\ armed' = FALSE
     ELSE UNCHANGED <<phase, armed>>
  /\ UNCHANGED <<ready, untilClosed, active, pulse, fired>>

OnDoorClosedAtOnce ==
  /\ ~RelayLocked
  /\ IF ready /\ active /\ untilClosed
     THEN armed' = FALSE /\ DriveIdle
     ELSE UNCHANGED <<armed, active, phase>>
  /\ UNCHANGED <<ready, untilClosed, pulse, fired>>

PulseReadDoor(t, doorIsOpen) ==
  /\ pulse[t] = "readDoor"
  /\ phase' = IF doorIsOpen THEN "waitingClose" ELSE "waitingOpen"
  /\ At(t, "arm")
  /\ UNCHANGED <<ready, untilClosed, active, armed, fired>>

(* Without a release timer the door would stay unlocked: fail closed. *)
PulseArm(t) ==
  /\ pulse[t] = "arm"
  /\ \/ armed' = TRUE /\ UNCHANGED <<active, phase>>
     \/ DriveIdle /\ UNCHANGED armed
  /\ At(t, "out")
  /\ UNCHANGED <<ready, untilClosed, fired>>

OnDoorOpen ==
  /\ ~RelayLocked
  /\ phase' = IF ready /\ active /\ untilClosed /\ phase = "waitingOpen"
              THEN "waitingClose" ELSE phase
  /\ UNCHANGED <<ready, untilClosed, active, pulse, armed, fired>>

OnDoorClosed ==
  /\ ~RelayLocked
  /\ IF ready /\ active /\ untilClosed /\ phase = "waitingClose"
     THEN armed' = FALSE /\ DriveIdle
     ELSE UNCHANGED <<armed, active, phase>>
  /\ UNCHANGED <<ready, untilClosed, pulse, fired>>

RelayTypeOK ==
  /\ ready \in BOOLEAN /\ untilClosed \in BOOLEAN /\ active \in BOOLEAN
  /\ phase \in Phases
  /\ pulse \in [Callers -> {"out", "readDoor", "arm"}]
  /\ armed \in BOOLEAN /\ fired \in BOOLEAN

=============================================================================
