---------------------------- MODULE ServiceButton ----------------------------
(***************************************************************************)
(* The gestures of the BOOT button: core/service_button.cpp.  The engine   *)
(* is a function of the sample and of the time that has passed; timers are *)
(* what is left of them, in ticks.                                         *)
(***************************************************************************)
EXTENDS Naturals

CONSTANTS
  Debounce,      \* debounce_ms
  ClickWindow,   \* click_window_ms
  WarnAfter,     \* long_press_arm_ms
  ResetAfter     \* long_press_ms

(* What Reset makes of any configuration. *)
ASSUME GestureTimes ==
  /\ Debounce \in Nat /\ ClickWindow \in Nat \ {0}
  /\ WarnAfter \in Nat \ {0} /\ ResetAfter \in Nat /\ WarnAfter <= ResetAfter

VARIABLE
  gestures      \* g_engine of main/service_button.cpp

Clicks == <<"single", "double", "triple">>
GestureNames == {"none", "warning", "reset"} \cup {Clicks[i] : i \in 1 .. 3}

(* hold: holding_ and armed_emitted_; stepping over long_press_emitted_,     *)
(* which a hold that ended says as well.  A pending level differs from the   *)
(* stable one.                                                               *)
EngineStates ==
  [pressed : BOOLEAN, pending : BOOLEAN, settle : 0 .. Debounce,
   hold : {"none", "held", "warned"}, held : 0 .. ResetAfter,
   clicks : 0 .. 2, waiting : BOOLEAN, window : 0 .. ClickWindow]

Seeded(pressed) ==
  [pressed |-> pressed, pending |-> FALSE, settle |-> 0, hold |-> "none",
   held |-> 0, clicks |-> 0, waiting |-> FALSE, window |-> 0]

Less(n) == IF n = 0 THEN 0 ELSE n - 1

(* A tick passes. *)
Aged(e) ==
  [e EXCEPT !.settle = Less(@), !.window = Less(@),
            !.held = IF e.hold = "none" \/ @ = ResetAfter THEN @ ELSE @ + 1]

(* What a sample changes, and the gesture it completes. *)
Reports(e, gesture) == [engine |-> e, gesture |-> gesture]

Sampled(e, level) ==
  IF level = e.pressed THEN [e EXCEPT !.pending = FALSE, !.settle = 0]
  ELSE IF e.pending THEN e
  ELSE [e EXCEPT !.pending = TRUE, !.settle = Debounce]

(* Faulty variant: a hold goes on from where the last one was. *)
SettledKeepingTime(e) ==
  IF ~(e.pending /\ e.settle = 0) THEN e
  ELSE IF ~e.pressed
  THEN [Seeded(TRUE) EXCEPT !.hold = "held", !.held = e.held, !.clicks = e.clicks]
  ELSE IF e.hold = "none" THEN [Seeded(FALSE) EXCEPT !.clicks = e.clicks]
  ELSE [Seeded(FALSE) EXCEPT !.held = e.held, !.clicks = e.clicks + 1,
                             !.waiting = TRUE, !.window = ClickWindow]

(* A press ends the wait for another click and starts a hold; the release of *)
(* a hold that did not reset anything is a click.                            *)
Settled(e) ==
  IF ~(e.pending /\ e.settle = 0) THEN e
  ELSE IF ~e.pressed
  THEN [Seeded(TRUE) EXCEPT !.hold = "held", !.clicks = e.clicks]
  ELSE IF e.hold = "none" THEN [Seeded(FALSE) EXCEPT !.clicks = e.clicks]
  ELSE [Seeded(FALSE) EXCEPT !.clicks = e.clicks + 1, !.waiting = TRUE,
                             !.window = ClickWindow]

(* Faulty variant: clicks that were reported count towards the next ones. *)
CommitKeeping(e) ==
  Reports([e EXCEPT !.waiting = FALSE, !.window = 0], Clicks[e.clicks])

CommitClicks(e) ==
  Reports([e EXCEPT !.clicks = 0, !.waiting = FALSE, !.window = 0], Clicks[e.clicks])

(* The third click does not wait for another. *)
Complete(e) == e.clicks = 3

ApplyRaw(e, level) ==
  LET next == Settled(Sampled(e, level))
      reset == next.hold # "none" /\ next.held = ResetAfter
      warn == next.hold = "held" /\ next.held >= WarnAfter
      over == next.waiting /\ next.window = 0
  IN CASE Complete(next) -> CommitClicks(next)
       [] reset /\ ~Complete(next) ->
            Reports([next EXCEPT !.hold = "none", !.held = 0, !.clicks = 0], "reset")
       [] warn /\ ~reset -> Reports([next EXCEPT !.hold = "warned"], "warning")
       [] over /\ ~Complete(next) -> CommitClicks(next)
       [] OTHER -> Reports(next, "none")

=============================================================================
