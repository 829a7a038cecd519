----------------------------- MODULE ExitButton -----------------------------
(***************************************************************************)
(* The request-to-exit button: core/exit_button.cpp is the debounce and    *)
(* cooldown engine, main/exit_button.cpp the va_rex task that samples the  *)
(* line, the settings it runs with and what a press does.  A press is      *)
(* handled by va_rex or, for the BOOT double click, by va_boot_btn.        *)
(***************************************************************************)
EXTENDS Naturals

CONSTANTS
  Settle,       \* debounce_ms
  Cooldown      \* cooldown_ms

ASSUME ExitTimes == Settle \in Nat /\ Cooldown \in Nat \ {0}

VARIABLES
  driver,       \* g_config: "failed" when its pin is not g_ready
  watching,     \* the va_rex task exists
  rex,          \* g_engine
  handling      \* where each task is in HandlePress

exitVars == <<driver, watching, rex, handling>>

Drivers == {"off", "wired", "failed", "simulated"}
Ready == driver \in {"wired", "simulated"}
Levels == {"up", "down"}
Pressers == {"va_rex", "va_boot_btn"}
Handling == {"idle", "asked", "press", "notify", "pulse"}

(* A pending level is one still to settle; "none" is has_pending_ = false. *)
RexStates ==
  [stable : {"unknown", "up", "down"}, pending : {"none", "up", "down"},
   settle : 0 .. Settle, armed : BOOLEAN, cooldown : 0 .. Cooldown]

Idle(t) == handling[t] = "idle"
Handles(t, place) == handling' = [handling EXCEPT ![t] = place]

(* Faulty variant: every engine starts with the button up. *)
(* Reset and Seed: a button that is down at boot does not count until it is let go. *)
Seed(level) ==
  [stable |-> level, pending |-> "none", settle |-> 0, armed |-> level = "up",
   cooldown |-> 0]

(* ConfigureLocked: nothing is read from a pin that cannot be claimed, and  *)
(* the simulated button starts up.                                           *)
SeededAs(mode, level) ==
  CASE mode = "wired" -> Seed(level)
    [] mode = "simulated" -> Seed("up")
    [] OTHER -> [Seed("up") EXCEPT !.stable = "unknown"]

(* Start creates the task after the pin is claimed, and not without it. *)
Starts(mode) == mode # "failed"

AllIdle == [t \in Pressers |-> "idle"]

ExitInit(mode, level) ==
  /\ driver = mode /\ rex = SeededAs(mode, level)
  /\ watching = Starts(mode) /\ handling = AllIdle

RestartExit(level) ==
  /\ rex' = SeededAs(driver, level)
  /\ watching' = Starts(driver) /\ handling' = AllIdle
  /\ UNCHANGED driver

Minus(n) == IF n = 0 THEN 0 ELSE n - 1
Older(e) == [e EXCEPT !.settle = Minus(@), !.cooldown = Minus(@)]

(* ApplyRaw notes a level that is neither settled nor settling. *)
Noted(e, level) ==
  IF e.pending = level \/ (e.stable = level /\ e.pending = "none") THEN e
  ELSE [e EXCEPT !.pending = level, !.settle = Settle]

Due(e) == e.pending # "none" /\ e.settle = 0

(* Faulty variant: a button that bounces fires again. *)
FiresAgain(e) == Due(e) /\ e.pending = "down" /\ e.stable # "down" /\ e.armed

(* Tick and Commit: a press outside the cooldown fires, and every press    *)
(* needs a release before the next.                                        *)
Fires(e) ==
  Due(e) /\ e.pending = "down" /\ e.stable # "down" /\ e.armed /\ e.cooldown = 0

Committed(e) ==
  IF ~Due(e) THEN e
  ELSE [stable |-> e.pending, pending |-> "none", settle |-> 0,
        armed |-> IF e.pending = e.stable THEN e.armed ELSE e.pending = "up",
        cooldown |-> IF Fires(e) THEN Cooldown ELSE e.cooldown]

-----------------------------------------------------------------------------
(* The settings and the tasks *)

(* A save hands the driver its new settings; only those that differ count. *)
ApplyExitConfig(level) ==
  /\ driver' \in Drivers \ {driver}
  /\ rex' = SeededAs(driver', level)
  /\ UNCHANGED <<watching, handling>>

(* WatcherLoop of va_rex: one sample under the mutex.  The line, or the      *)
(* simulated one, may have changed since the last.                           *)
PollExit(level) ==
  /\ watching /\ Idle("va_rex") /\ Ready
  /\ LET noted == Noted(rex, level)
     IN /\ rex' = Committed(noted)
        /\ Handles("va_rex", IF Fires(noted) THEN "press" ELSE "idle")
  /\ UNCHANGED <<driver, watching>>

(* SyntheticRex asks enabled() and simulated(), TriggerPress asks again. *)
SyntheticRex ==
  /\ Handles("va_boot_btn", IF driver = "simulated" THEN "asked" ELSE "idle")
  /\ UNCHANGED <<driver, watching, rex>>

TriggerPress ==
  /\ handling["va_boot_btn"] = "asked"
  /\ Handles("va_boot_btn", IF Ready THEN "press" ELSE "idle")
  /\ UNCHANGED <<driver, watching, rex>>

=============================================================================
