------------------------------- MODULE Buttons -------------------------------
(***************************************************************************)
(* The buttons of the ESP32 reader: BOOT, sampled by va_boot_btn, and the  *)
(* request to exit, sampled by va_rex.  A double click of BOOT handles a   *)
(* press of the other button on its own task; a long hold resets the       *)
(* reader while other tasks may be saving.  Time passes in ticks, and a    *)
(* task that is not busy samples its button in each of them (kPollMs).     *)
(***************************************************************************)
EXTENDS ServiceButton, ExitButton, FactoryReset

VARIABLES
  gesture,      \* what va_boot_btn is handling
  sampled,      \* the tasks that have sampled since the last tick
  letGo,        \* history: the exit button was read up since it last fired
  rested        \* history: ticks since it last fired, up to Cooldown

bootVars == <<gestures, gesture>>
watchVars == <<letGo, rested>>
vars == <<bootVars, exitVars, resetVars, sampled, watchVars>>

Forget(mode, level) ==
  letGo' = (mode # "wired" \/ level = "up") /\ rested' = Cooldown

Init ==
  /\ \E mode \in Drivers, level \in Levels :
       ExitInit(mode, level) /\ letGo = (mode # "wired" \/ level = "up")
  /\ ResetInit
  /\ gestures \in {Seeded(down) : down \in BOOLEAN}
  /\ gesture = "none" /\ sampled = {} /\ rested = Cooldown

BootBusy == gesture # "none" \/ ~Idle("va_boot_btn") \/ Resetting

-----------------------------------------------------------------------------
(* Time and settings *)

(* Both samples of a tick are taken before the next one. *)
Tick ==
  /\ BootBusy \/ "va_boot_btn" \in sampled
  /\ ~Idle("va_rex") \/ ~watching \/ ~Ready \/ "va_rex" \in sampled
  /\ sampled' = {}
  /\ gestures' = Aged(gestures) /\ rex' = Older(rex)
  /\ rested' = IF rested = Cooldown THEN rested ELSE rested + 1
  /\ UNCHANGED <<gesture, driver, watching, handling, resetVars, letGo>>

ApplyConfig(level) ==
  /\ ApplyExitConfig(level) /\ Forget(driver', level)
  /\ UNCHANGED <<bootVars, resetVars, sampled>>

-----------------------------------------------------------------------------
(* The tasks *)

SampleExit(level) ==
  /\ PollExit(level)
  /\ sampled' = sampled \cup {"va_rex"}
  /\ IF Fires(Noted(rex, level)) THEN letGo' = FALSE /\ rested' = 0
     ELSE letGo' = (letGo \/ level = "up") /\ UNCHANGED rested
  /\ UNCHANGED <<bootVars, resetVars>>

SampleBoot(down) ==
  /\ ~BootBusy
  /\ LET report == ApplyRaw(gestures, down)
     IN gestures' = report.engine /\ gesture' = report.gesture
  /\ sampled' = sampled \cup {"va_boot_btn"}
  /\ UNCHANGED <<exitVars, resetVars, watchVars>>

GestureEnds == gesture' = "none" /\ UNCHANGED <<gestures, sampled, watchVars>>

(* A beep, the portal's end, or the portal: WifiPortal has what they do. *)
Announce ==
  /\ gesture \in {"single", "double", "triple", "warning"}
  /\ GestureEnds /\ UNCHANGED <<exitVars, resetVars>>

DoubleClick ==
  /\ gesture = "double"
  /\ SyntheticRex /\ GestureEnds /\ UNCHANGED resetVars

(* The task never comes back to its samples, so its engine stays as it is. *)
LongPress ==
  /\ gesture = "reset" /\ gesture' = "none"
  /\ gestures' = Seeded(TRUE)
  /\ BeginReset /\ UNCHANGED <<exitVars, sampled, watchVars>>

HandleGesture == Announce \/ DoubleClick \/ LongPress

(* HandlePress: the settings of the moment, the notice to Identity, which  *)
(* may fail or be refused, and the pulse.                                  *)
HandlePress(t) ==
  \/ /\ handling[t] = "press"
     /\ Handles(t, IF configured /\ driver # "off" THEN "notify" ELSE "idle")
     /\ UNCHANGED resetVars
  \/ /\ handling[t] = "notify"
     /\ \/ Handles(t, "pulse") /\ UNCHANGED resetVars
        \/ Handles(t, "idle") /\ IF configured THEN BeginSave("setup") ELSE UNCHANGED resetVars
  \/ handling[t] = "pulse" /\ Handles(t, "idle") /\ UNCHANGED resetVars

Press(t) ==
  /\ HandlePress(t)
  /\ UNCHANGED <<bootVars, driver, watching, rex, sampled, watchVars>>

AskAgain ==
  /\ TriggerPress
  /\ UNCHANGED <<bootVars, resetVars, sampled, watchVars>>

(* A remote setting; one that is saved before the reset begins leaves the *)
(* stores as it found them.                                                *)
OtherSave ==
  /\ \/ Resetting /\ BeginSave("live")
     \/ SaveConfig
  /\ UNCHANGED <<bootVars, exitVars, sampled, watchVars>>

Reset ==
  /\ FactoryResetAndReboot
  /\ UNCHANGED <<bootVars, exitVars, sampled, watchVars>>

(* The wiring outlives the factory reset. *)
Reboot(level) ==
  /\ Restart
  /\ gestures' = Seeded(FALSE) /\ gesture' = "none" /\ sampled' = {}
  /\ RestartExit(level) /\ Forget(driver, level)

Next ==
  \/ Tick \/ HandleGesture \/ AskAgain
  \/ \E level \in Levels : SampleExit(level) \/ ApplyConfig(level) \/ Reboot(level)
  \/ \E down \in BOOLEAN : SampleBoot(down)
  \/ \E t \in Pressers : Press(t)
  \/ OtherSave \/ Reset

Spec == Init /\ [][Next]_vars

-----------------------------------------------------------------------------
(* Properties *)

(* Every variable has its type: no engine counts past the third click. *)
TypeOK ==
  /\ gestures \in EngineStates /\ rex \in RexStates
  /\ gesture \in GestureNames /\ handling \in [Pressers -> Handling]
  /\ driver \in Drivers

(* One press of the exit button opens once: it was read up since it last     *)
(* fired, and the cooldown is over, through bounces, settings that come in   *)
(* between, and presses that are still being handled; a button that is down  *)
(* when it is first read does not open.  A save of the settings starts the   *)
(* engine anew, cooldown included, in the code as in the history it is held  *)
(* to.  core/exit_button.cpp:30-39, 68-92.                                   *)
NoRefire ==
  [][handling["va_rex"] = "idle" /\ handling'["va_rex"] = "press"
       => letGo /\ rested = Cooldown]_vars

(* No click is forgotten or kept for another gesture: counted clicks wait    *)
(* for the window to close, or for the hold that follows them.               *)
(* core/service_button.cpp:78-95.                                            *)
ClicksAnswered == gestures.clicks > 0 => gestures.waiting \/ gestures.hold # "none"

(* Nobody erases a reader by a bounce or by clicks that add up: the same     *)
(* hold was announced before it resets.  core/service_button.cpp:99-110.     *)
ResetIsWarned == [][gesture' = "reset" /\ gesture # "reset" => gestures.hold = "warned"]_vars

(* service_button.cpp:87-124: a reader that restarts from a factory reset has  *)
(* no settings and no key, whatever writes and renames failed on the way and   *)
(* whoever saved through the same files meanwhile.  What is left it could not  *)
(* help: a store that refused the last wipe, whose result is ignored, or one   *)
(* that another task wrote after the reset last looked at it.                  *)
ResetErases ==
  [][resetAt = "release" /\ resetAt' = "none" =>
       /\ NoSettings \/ "doc" \in late \cup refused
       /\ NoKey \/ "nvs" \in late \cup refused]_vars

(* service_button.cpp:116 "factory reset saved": the reader that restarts has  *)
(* lost its settings and its key, unless a store refused the last wipe.        *)
ResetIsSaved ==
  [][resetAt = "release" /\ resetAt' = "none" /\ refused = {} => NoSettings /\ NoKey]_vars

(* app_main.cpp:131-133: a save that moves the pin re-arms the driver in      *)
(* place, so a driver that is ready is sampled.                              *)
ReadyIsWatched == Ready => watching

=============================================================================
