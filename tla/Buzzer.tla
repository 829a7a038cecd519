------------------------------- MODULE Buzzer -------------------------------
(***************************************************************************)
(* main/buzzer.cpp: cues reach the worker task through a queue of length   *)
(* one that every Enqueue overwrites; the held-open alarm repeats until    *)
(* the worker reads another cue or finds its pin gone.                     *)
(***************************************************************************)
VARIABLES
  buzzer,   \* g_ready
  cue,      \* the queued BeepKind, or "none"
  alarm     \* Worker's held_alarm

buzzerVars == <<buzzer, cue, alarm>>

Cues == {"beep", "held_open", "stop"}   \* "beep": success or fail

BuzzerInit == buzzer \in BOOLEAN /\ cue = "none" /\ alarm = FALSE

ConfigureBuzzer == buzzer' \in BOOLEAN /\ UNCHANGED <<cue, alarm>>

Enqueue(kind) ==
  /\ cue' = IF buzzer \/ kind = "stop" THEN kind ELSE cue
  /\ UNCHANGED <<buzzer, alarm>>

(* A faulty variant of TakeCue: no other cue ends the alarm. *)
TakeCueAlarmed ==
  /\ cue # "none"
  /\ cue' = "none"
  /\ alarm' = (alarm \/ cue = "held_open")
  /\ UNCHANGED buzzer

TakeCue ==
  /\ cue # "none"
  /\ cue' = "none"
  /\ alarm' = (cue = "held_open")
  /\ UNCHANGED buzzer

(* PlayPlan gives up, and the alarm with it, when the pin is gone. *)
PlayHeldOpen ==
  /\ alarm /\ cue = "none" /\ ~buzzer
  /\ alarm' = FALSE
  /\ UNCHANGED <<buzzer, cue>>

BuzzerTypeOK ==
  /\ buzzer \in BOOLEAN
  /\ cue \in Cues \cup {"none"}
  /\ alarm \in BOOLEAN

=============================================================================
