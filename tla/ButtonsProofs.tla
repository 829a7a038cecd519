---------------------------- MODULE ButtonsProofs ----------------------------
(***************************************************************************)
(* Proofs about Buttons, for every debounce, window, hold and cooldown.    *)
(***************************************************************************)
EXTENDS Buttons, TLAPS

(* What the gesture engine keeps between two samples: counted clicks wait for *)
(* the window or for the hold that follows them, and a button that is down     *)
(* without a hold has none, for its release would forget them.                 *)
Answered(e) ==
  /\ e.clicks > 0 => e.waiting \/ e.hold # "none"
  /\ e.waiting => e.clicks > 0 /\ e.hold = "none"
  /\ e.pressed /\ e.hold = "none" => e.clicks = 0

(* A hold that nobody was warned of is young: its task samples it in each tick. *)
HoldIsWatched ==
  gestures.hold = "held" =>
    /\ ~BootBusy /\ gestures.held <= WarnAfter
    /\ "va_boot_btn" \in sampled => gestures.held < WarnAfter

(* The history of the exit button agrees with its engine. *)
ExitRemembers ==
  /\ letGo \in BOOLEAN /\ rested \in 0 .. Cooldown
  /\ rex.armed => letGo
  /\ rex.cooldown + rested >= Cooldown

(* What is kept by BOOT, and by the request to exit. *)
BootInv ==
  /\ gestures \in EngineStates /\ gesture \in GestureNames
  /\ Answered(gestures) /\ HoldIsWatched

ExitInv == rex \in RexStates /\ driver \in Drivers /\ ExitRemembers

(* What a reset has seen or wiped is gone, unless it refused or was written *)
(* again.                                                                   *)
ResetIsDone ==
  /\ "doc" \in Seen => NoSettings \/ "doc" \in late \cup refused
  /\ "nvs" \in Seen => NoKey \/ "nvs" \in late \cup refused

IInv == handling \in [Pressers -> Handling] /\ BootInv /\ ExitInv /\ ResetIsDone

-----------------------------------------------------------------------------
(* The gesture engine *)

(* An engine whose third click has not been reported yet. *)
Engines ==
  [pressed : BOOLEAN, pending : BOOLEAN, settle : 0 .. Debounce,
   hold : {"none", "held", "warned"}, held : 0 .. ResetAfter,
   clicks : 0 .. 3, waiting : BOOLEAN, window : 0 .. ClickWindow]

(* The end of a hold keeps the type, and the fields it leaves alone. *)
LEMMA HoldUpdate ==
  ASSUME NEW e \in Engines, NEW h \in {"none", "held", "warned"}, NEW t \in 0 .. ResetAfter,
         NEW n \in 0 .. 2
  PROVE  LET c == [e EXCEPT !.hold = h, !.held = t, !.clicks = n]
         IN /\ c \in EngineStates /\ c.clicks = n /\ c.hold = h /\ c.waiting = e.waiting
BY DEF Engines, EngineStates

(* The same for a warning. *)
LEMMA WarnUpdate ==
  ASSUME NEW e \in EngineStates, NEW h \in {"none", "held", "warned"}
  PROVE  LET c == [e EXCEPT !.hold = h]
         IN /\ c \in EngineStates /\ c.hold = h /\ c.pressed = e.pressed
            /\ c.clicks = e.clicks /\ c.waiting = e.waiting
BY DEF EngineStates

(* A tick keeps what was counted, and ages a hold by one. *)
LEMMA AgedFacts ==
  ASSUME NEW e \in EngineStates
  PROVE  /\ Aged(e) \in EngineStates
         /\ Answered(e) => Answered(Aged(e))
         /\ Aged(e).hold = e.hold
         /\ Aged(e).held <= e.held + 1
<1> DEFINE h == IF e.hold = "none" \/ e.held = ResetAfter THEN e.held ELSE e.held + 1
<1>1. Aged(e) = [e EXCEPT !.settle = Less(e.settle), !.window = Less(e.window), !.held = h]
  BY Zenon DEF Aged
<1>2. /\ Less(e.settle) \in 0 .. Debounce /\ Less(e.window) \in 0 .. ClickWindow
      /\ h \in 0 .. ResetAfter /\ h <= e.held + 1
  BY GestureTimes DEF EngineStates, Less
<1> DEFINE Later(i, j, k) == [e EXCEPT !.settle = i, !.window = j, !.held = k]
           a == Later(Less(e.settle), Less(e.window), h)
<1>3. ASSUME NEW i \in 0 .. Debounce, NEW j \in 0 .. ClickWindow, NEW k \in 0 .. ResetAfter
      PROVE  /\ Later(i, j, k) \in EngineStates
             /\ Later(i, j, k).pressed = e.pressed /\ Later(i, j, k).hold = e.hold
             /\ Later(i, j, k).held = k /\ Later(i, j, k).clicks = e.clicks
             /\ Later(i, j, k).waiting = e.waiting
  BY DEF EngineStates
<1> HIDE DEF Later, h
<1>4. /\ a \in EngineStates
      /\ a.pressed = e.pressed /\ a.hold = e.hold /\ a.held = h
      /\ a.clicks = e.clicks /\ a.waiting = e.waiting
  BY <1>2, <1>3
<1>5. Aged(e) = a
  BY <1>1 DEF Later
<1> HIDE DEF a
<1>. QED BY <1>2, <1>4, <1>5 DEF Answered

(* A sample that only starts or drops a debounce changes nothing else. *)
LEMMA SampledFacts ==
  ASSUME NEW e \in EngineStates, NEW level \in BOOLEAN
  PROVE  /\ Sampled(e, level) \in EngineStates
         /\ Sampled(e, level).pressed = e.pressed /\ Sampled(e, level).hold = e.hold
         /\ Sampled(e, level).held = e.held /\ Sampled(e, level).clicks = e.clicks
         /\ Sampled(e, level).waiting = e.waiting
<1>1. ASSUME NEW p \in BOOLEAN, NEW n \in 0 .. Debounce
      PROVE  LET s == [e EXCEPT !.pending = p, !.settle = n]
             IN /\ s \in EngineStates
                /\ s.pressed = e.pressed /\ s.hold = e.hold /\ s.held = e.held
                /\ s.clicks = e.clicks /\ s.waiting = e.waiting
  BY DEF EngineStates
<1>2. 0 \in 0 .. Debounce /\ Debounce \in 0 .. Debounce
  BY GestureTimes
<1>. QED BY <1>1, <1>2 DEF Sampled

(* A level that settles starts a hold, or ends one with a click. *)
LEMMA SettledFacts ==
  ASSUME NEW e \in EngineStates, Answered(e)
  PROVE  /\ Settled(e) \in Engines
         /\ Answered(Settled(e))
         /\ Settled(e).clicks = 3 => Settled(e).hold = "none"
         /\ \/ Settled(e).hold = "none"
            \/ Settled(e).hold = e.hold /\ Settled(e).held = e.held
            \/ Settled(e).hold = "held" /\ Settled(e).held = 0
<1>1. CASE ~(e.pending /\ e.settle = 0)
  <2>1. Settled(e) = e
    BY <1>1 DEF Settled
  <2>2. e \in Engines
    BY DEF EngineStates, Engines
  <2>. QED BY <2>1, <2>2 DEF EngineStates
<1>2. CASE e.pending /\ e.settle = 0 /\ ~e.pressed
  <2>1. Settled(e) =
          [pressed |-> TRUE, pending |-> FALSE, settle |-> 0, hold |-> "held", held |-> 0,
           clicks |-> e.clicks, waiting |-> FALSE, window |-> 0]
    BY <1>2 DEF Settled, Seeded
  <2>2. Settled(e) \in Engines
    BY <2>1, GestureTimes DEF EngineStates, Engines
  <2>3. Answered(Settled(e))
    BY <2>1 DEF Answered
  <2>. QED BY <2>1, <2>2, <2>3 DEF EngineStates
<1>3. CASE e.pending /\ e.settle = 0 /\ e.pressed /\ e.hold = "none"
  <2>1. Settled(e) = [Seeded(FALSE) EXCEPT !.clicks = e.clicks] /\ e.clicks = 0
    BY <1>3 DEF Settled, Answered
  <2>2. Settled(e) = Seeded(FALSE)
    BY <2>1 DEF Seeded
  <2>. QED BY <2>2, GestureTimes DEF Seeded, EngineStates, Engines, Answered
<1>4. CASE e.pending /\ e.settle = 0 /\ e.pressed /\ e.hold # "none"
  <2>1. Settled(e) =
          [pressed |-> FALSE, pending |-> FALSE, settle |-> 0, hold |-> "none", held |-> 0,
           clicks |-> e.clicks + 1, waiting |-> TRUE, window |-> ClickWindow]
    BY <1>4 DEF Settled, Seeded
  <2>2. Settled(e) \in Engines
    BY <2>1, GestureTimes DEF EngineStates, Engines
  <2>3. Answered(Settled(e))
    BY <2>1 DEF Answered, EngineStates
  <2>. QED BY <2>1, <2>2, <2>3 DEF EngineStates
<1>. QED BY <1>1, <1>2, <1>3, <1>4 DEF EngineStates

(* Reporting the clicks forgets them. *)
LEMMA CommitFacts ==
  ASSUME NEW e \in Engines, e.clicks > 0
  PROVE  LET report == CommitClicks(e)
         IN /\ report.engine \in EngineStates /\ report.engine.clicks = 0
            /\ report.engine.hold = e.hold /\ ~report.engine.waiting
            /\ report.gesture \in GestureNames \ {"none", "reset"}
<1> DEFINE Cleared(n, f, w) == [e EXCEPT !.clicks = n, !.waiting = f, !.window = w]
           c == Cleared(0, FALSE, 0)
<1>1. 0 \in 0 .. 2 /\ FALSE \in BOOLEAN /\ 0 \in 0 .. ClickWindow
  BY GestureTimes
<1>2. c \in EngineStates /\ c.clicks = 0 /\ ~c.waiting /\ c.hold = e.hold
  <2>1. ASSUME NEW n \in 0 .. 2, NEW f \in BOOLEAN, NEW w \in 0 .. ClickWindow
        PROVE  /\ Cleared(n, f, w) \in EngineStates /\ Cleared(n, f, w).clicks = n
               /\ Cleared(n, f, w).waiting = f /\ Cleared(n, f, w).hold = e.hold
    BY DEF Engines, EngineStates
  <2> HIDE DEF Cleared
  <2>. QED BY <1>1, <2>1
<1>3. Clicks[e.clicks] \in GestureNames \ {"none", "reset"}
  <2>1. e.clicks \in 1 .. 3
    BY DEF Engines
  <2>. QED BY <2>1 DEF Clicks, GestureNames
<1>4. CommitClicks(e) = [engine |-> c, gesture |-> Clicks[e.clicks]]
  BY DEF CommitClicks, Reports
<1> HIDE DEF c
<1>. QED BY <1>2, <1>3, <1>4

(* A sample leaves nothing unanswered, never lets a hold grow unwarned, and   *)
(* resets only after a hold of the full time.                                 *)
LEMMA ReportFacts ==
  ASSUME NEW e \in EngineStates, Answered(e), NEW level \in BOOLEAN
  PROVE  LET report == ApplyRaw(e, level)
         IN /\ report.engine \in EngineStates /\ Answered(report.engine)
            /\ report.gesture \in GestureNames
            /\ report.engine.hold = "held" =>
                 report.gesture = "none" /\ report.engine.held < WarnAfter
            /\ report.gesture = "reset" => e.hold # "none" /\ e.held = ResetAfter
<1> DEFINE next == Settled(Sampled(e, level))
           reset == next.hold # "none" /\ next.held = ResetAfter
           warn == next.hold = "held" /\ next.held >= WarnAfter
           over == next.waiting /\ next.window = 0
           ended == [next EXCEPT !.hold = "none", !.held = 0, !.clicks = 0]
           warned == [next EXCEPT !.hold = "warned"]
           report == ApplyRaw(e, level)
<1>1. /\ next \in Engines /\ Answered(next)
      /\ next.clicks = 3 => next.hold = "none"
      /\ \/ next.hold = "none"
         \/ next.hold = e.hold /\ next.held = e.held
         \/ next.hold = "held" /\ next.held = 0
  BY SampledFacts, SettledFacts DEF Answered
<1>2. report = CASE Complete(next) -> CommitClicks(next)
                 [] reset /\ ~Complete(next) -> Reports(ended, "reset")
                 [] warn /\ ~reset -> Reports(warned, "warning")
                 [] over /\ ~Complete(next) -> CommitClicks(next)
                 [] OTHER -> Reports(next, "none")
  BY DEF ApplyRaw
<1> HIDE DEF next
<1>3. /\ ended \in EngineStates /\ ended.clicks = 0 /\ ended.hold = "none"
      /\ ended.waiting = next.waiting
  <2>1. "none" \in {"none", "held", "warned"} /\ 0 \in 0 .. ResetAfter /\ 0 \in 0 .. 2
    BY GestureTimes
  <2>2. next \in Engines
    BY <1>1
  <2>. QED BY <2>1, <2>2, HoldUpdate, ZenonT(60)
<1>4. ~Complete(next) => next \in EngineStates
  BY <1>1 DEF Engines, EngineStates, Complete
<1>5. ~Complete(next) =>
        /\ warned \in EngineStates /\ warned.hold = "warned" /\ warned.clicks = next.clicks
        /\ warned.waiting = next.waiting /\ warned.pressed = next.pressed
  <2>1. "warned" \in {"none", "held", "warned"}
    OBVIOUS
  <2>. QED BY <1>4, <2>1, WarnUpdate, Zenon
<1>6. reset \/ warn => ~Complete(next)
  BY <1>1 DEF Complete
<1> HIDE DEF ended, warned, report
<1>7. CASE Complete(next)
  <2>1. report = CommitClicks(next)
    BY <1>1, <1>2, <1>6, <1>7
  <2>. QED BY <1>1, <1>7, <2>1, CommitFacts DEF Complete, Answered, report
<1>8. CASE reset
  <2>1. report = Reports(ended, "reset") /\ ~over
    BY <1>1, <1>2, <1>6, <1>8 DEF Answered
  <2>. QED BY <1>1, <1>3, <1>8, <2>1, GestureTimes
           DEF Reports, Answered, GestureNames, report
<1>9. CASE warn /\ ~reset
  <2>1. report = Reports(warned, "warning") /\ ~over
    BY <1>1, <1>2, <1>6, <1>9 DEF Answered
  <2>. QED BY <1>1, <1>5, <1>6, <1>9, <2>1 DEF Reports, Answered, GestureNames, report
<1>10. CASE over /\ ~reset /\ ~warn /\ ~Complete(next)
  <2>1. report = CommitClicks(next)
    BY <1>2, <1>10
  <2>. QED BY <1>1, <1>10, <2>1, CommitFacts DEF Answered, report, Engines
<1>11. CASE ~over /\ ~reset /\ ~warn /\ ~Complete(next)
  <2>1. report = Reports(next, "none")
    BY <1>2, <1>11
  <2>2. next.hold = "held" => next.held < WarnAfter
    BY <1>1, <1>11, GestureTimes DEF Engines
  <2>. QED BY <1>1, <1>4, <1>11, <2>1, <2>2 DEF Reports, GestureNames, report
<1>. QED BY <1>7, <1>8, <1>9, <1>10, <1>11

-----------------------------------------------------------------------------
(* The exit button *)

(* A tick keeps the type of its engine, and shortens the cooldown by one. *)
LEMMA OlderFacts ==
  ASSUME NEW e \in RexStates
  PROVE  /\ Older(e) \in RexStates
         /\ Older(e).armed = e.armed
         /\ Older(e).cooldown >= e.cooldown - 1
<1> DEFINE Later(i, j) == [e EXCEPT !.settle = i, !.cooldown = j]
           o == Later(Minus(e.settle), Minus(e.cooldown))
<1>1. ASSUME NEW i \in 0 .. Settle, NEW j \in 0 .. Cooldown
      PROVE  /\ Later(i, j) \in RexStates /\ Later(i, j).armed = e.armed
             /\ Later(i, j).cooldown = j
  BY DEF RexStates
<1>2. /\ Minus(e.settle) \in 0 .. Settle /\ Minus(e.cooldown) \in 0 .. Cooldown
      /\ Minus(e.cooldown) >= e.cooldown - 1
  BY ExitTimes DEF RexStates, Minus
<1>3. Older(e) = o
  BY Zenon DEF Older
<1> HIDE DEF Later
<1>. QED BY <1>1, <1>2, <1>3

(* A fresh engine arms a button that is up. *)
LEMMA SeededAsFacts ==
  ASSUME NEW mode \in Drivers, NEW level \in Levels
  PROVE  /\ SeededAs(mode, level) \in RexStates
         /\ SeededAs(mode, level).armed => mode # "wired" \/ level = "up"
         /\ SeededAs(mode, level).cooldown = 0
<1>1. Seed("up") \in RexStates /\ Seed(level) \in RexStates
  BY ExitTimes DEF Seed, RexStates, Levels
<1>2. CASE mode = "wired"
  BY <1>1, <1>2 DEF SeededAs, Seed
<1>3. CASE mode = "simulated"
  BY <1>1, <1>3 DEF SeededAs, Seed
<1>4. CASE mode \notin {"wired", "simulated"}
  <2>1. SeededAs(mode, level) = [Seed("up") EXCEPT !.stable = "unknown"]
    BY <1>4 DEF SeededAs
  <2>2. SeededAs(mode, level) =
          [stable |-> "unknown", pending |-> "none", settle |-> 0, armed |-> TRUE, cooldown |-> 0]
    BY <2>1 DEF Seed
  <2>. QED BY <1>4, <2>2, ExitTimes DEF RexStates
<1>. QED BY <1>2, <1>3, <1>4

(* What a sample makes of the engine: it is armed again only by a level that  *)
(* is up, and fires only armed and after its cooldown.                        *)
LEMMA CommittedFacts ==
  ASSUME NEW e \in RexStates, NEW level \in Levels
  PROVE  LET noted == Noted(e, level)
         IN /\ Committed(noted) \in RexStates
            /\ Committed(noted).armed => (e.armed \/ level = "up")
            /\ Fires(noted) =>
                 /\ e.armed /\ e.cooldown = 0
                 /\ ~Committed(noted).armed /\ Committed(noted).cooldown = Cooldown
            /\ ~Fires(noted) => Committed(noted).cooldown = e.cooldown
<1> DEFINE noted == Noted(e, level)
<1>1. /\ noted \in RexStates /\ noted.armed = e.armed /\ noted.cooldown = e.cooldown
      /\ noted.pending \in {"none", level}
  <2> DEFINE Pending(l, n) == [e EXCEPT !.pending = l, !.settle = n]
  <2>1. ASSUME NEW l \in Levels, NEW n \in 0 .. Settle
        PROVE  /\ Pending(l, n) \in RexStates /\ Pending(l, n).armed = e.armed
               /\ Pending(l, n).cooldown = e.cooldown /\ Pending(l, n).pending = l
    BY DEF RexStates, Levels
  <2>2. Settle \in 0 .. Settle
    BY ExitTimes
  <2>3. noted = e \/ noted = Pending(level, Settle)
    BY DEF Noted
  <2>4. noted = e => noted.pending \in {"none", level}
    BY DEF Noted, RexStates
  <2> HIDE DEF Pending, noted
  <2>. QED BY <2>1, <2>2, <2>3, <2>4
<1> HIDE DEF noted
<1>2. CASE ~Due(noted)
  <2>1. Committed(noted) = noted /\ ~Fires(noted)
    BY <1>2 DEF Committed, Fires
  <2>. QED BY <1>1, <2>1 DEF noted
<1>3. CASE Due(noted)
  <2>1. noted.pending = level
    BY <1>1, <1>3 DEF Due
  <2> DEFINE armed == IF noted.pending = noted.stable THEN noted.armed ELSE noted.pending = "up"
             cooldown == IF Fires(noted) THEN Cooldown ELSE noted.cooldown
  <2>2. Committed(noted) = [stable |-> noted.pending, pending |-> "none", settle |-> 0,
                            armed |-> armed, cooldown |-> cooldown]
    BY <1>3 DEF Committed
  <2>3. /\ armed \in BOOLEAN /\ cooldown \in 0 .. Cooldown
        /\ armed => e.armed \/ level = "up"
        /\ Fires(noted) => ~armed /\ e.armed /\ e.cooldown = 0
    <3>1. cooldown \in 0 .. Cooldown
      BY <1>1, ExitTimes DEF RexStates
    <3>2. Fires(noted) => /\ noted.pending = "down" /\ noted.stable # "down"
                          /\ e.armed /\ e.cooldown = 0
      BY <1>1 DEF Fires
    <3>3. CASE noted.pending = noted.stable
      <4>1. armed = noted.armed /\ noted.armed \in BOOLEAN
        BY <1>1, <3>3 DEF RexStates
      <4>. QED BY <1>1, <3>1, <3>2, <3>3, <4>1
    <3>4. CASE noted.pending # noted.stable
      <4>1. armed = (noted.pending = "up")
        BY <3>4
      <4>. QED BY <2>1, <3>1, <3>2, <4>1
    <3>. QED BY <3>3, <3>4
  <2>4. 0 \in 0 .. Settle
    BY ExitTimes
  <2>5. cooldown = IF Fires(noted) THEN Cooldown ELSE e.cooldown
    BY <1>1
  <2> HIDE DEF armed, cooldown
  <2>6. Committed(noted) \in RexStates
    BY <2>1, <2>2, <2>3, <2>4 DEF RexStates, Levels
  <2>7. Committed(noted).armed = armed /\ Committed(noted).cooldown = cooldown
    BY <2>2
  <2>. QED BY <2>3, <2>5, <2>6, <2>7 DEF noted
<1>. QED BY <1>2, <1>3

-----------------------------------------------------------------------------
(* The invariant *)

(* The invariant holds at the start. *)
LEMMA InitInv == Init => IInv
<1> SUFFICES ASSUME Init PROVE IInv
  OBVIOUS
<1>1. ASSUME NEW down \in BOOLEAN
      PROVE  Seeded(down) \in EngineStates /\ Answered(Seeded(down)) /\ Seeded(down).hold = "none"
  BY GestureTimes DEF Seeded, EngineStates, Answered
<1>2. BootInv
  BY <1>1 DEF Init, BootInv, HoldIsWatched, GestureNames
<1>3. ExitInv /\ handling \in [Pressers -> Handling]
  <2>1. PICK mode \in Drivers, level \in Levels :
          ExitInit(mode, level) /\ letGo = (mode # "wired" \/ level = "up")
    BY DEF Init
  <2>2. /\ rex \in RexStates /\ driver \in Drivers /\ rex.cooldown = 0
        /\ rex.armed => mode # "wired" \/ level = "up"
    BY <2>1, SeededAsFacts DEF ExitInit
  <2>3. letGo \in BOOLEAN /\ (letGo <=> mode # "wired" \/ level = "up")
    BY <2>1
  <2>4. rested \in 0 .. Cooldown /\ rex.cooldown + rested >= Cooldown
    BY <2>2, ExitTimes DEF Init
  <2>5. handling \in [Pressers -> Handling]
    BY <2>1 DEF ExitInit, AllIdle, Handling
  <2>. QED BY <2>2, <2>3, <2>4, <2>5 DEF ExitInv, ExitRemembers
<1>4. ResetIsDone
  BY DEF Init, ResetInit, ResetIsDone, Seen
<1>. QED BY <1>2, <1>3, <1>4 DEF IInv

(* Where the presses are stays typed. *)
LEMMA HandlingTyped ==
  ASSUME handling \in [Pressers -> Handling], [Next]_vars
  PROVE  handling' \in [Pressers -> Handling]
<1>1. ASSUME NEW t \in Pressers, NEW place \in Handling, Handles(t, place)
      PROVE  handling' \in [Pressers -> Handling]
  BY <1>1 DEF Handles
<1>2. {"va_rex", "va_boot_btn"} \subseteq Pressers
      /\ {"idle", "asked", "press", "notify", "pulse"} \subseteq Handling
  BY DEF Pressers, Handling
<1>3. CASE Tick \/ UNCHANGED vars
  BY <1>3 DEF Tick, vars, exitVars
<1>4. CASE HandleGesture
  BY <1>1, <1>2, <1>4 DEF HandleGesture, Announce, DoubleClick, LongPress, SyntheticRex, exitVars
<1>5. CASE AskAgain
  BY <1>1, <1>2, <1>5 DEF AskAgain, TriggerPress
<1>6. ASSUME NEW level \in Levels, SampleExit(level) \/ ApplyConfig(level) \/ Reboot(level)
      PROVE  handling' \in [Pressers -> Handling]
  BY <1>1, <1>2, <1>6 DEF SampleExit, PollExit, ApplyConfig, ApplyExitConfig, Reboot,
                          RestartExit, AllIdle
<1>7. CASE \E down \in BOOLEAN : SampleBoot(down)
  BY <1>7 DEF SampleBoot, exitVars
<1>8. ASSUME NEW t \in Pressers, Press(t) PROVE handling' \in [Pressers -> Handling]
  BY <1>1, <1>2, <1>8 DEF Press, HandlePress
<1>9. CASE OtherSave \/ Reset
  BY <1>9 DEF OtherSave, Reset, exitVars
<1>. QED BY <1>3, <1>4, <1>5, <1>6, <1>7, <1>8, <1>9 DEF Next

(* A task that handles a gesture or a press, or resets, was at it already: *)
(* only a sample of BOOT gives it something to do.                         *)
LEMMA BusyBefore ==
  ASSUME handling \in [Pressers -> Handling], [Next]_vars, BootBusy',
         ~\E down \in BOOLEAN : SampleBoot(down), ~\E level \in Levels : Reboot(level)
  PROVE  BootBusy
<1> USE DEF BootBusy, Idle, Resetting
<1>1. CASE Tick \/ UNCHANGED vars
  BY <1>1 DEF Tick, vars, exitVars, resetVars, bootVars
<1>2. CASE HandleGesture
  BY <1>2 DEF HandleGesture, Announce, DoubleClick, LongPress
<1>3. CASE AskAgain
  BY <1>3 DEF AskAgain, TriggerPress
<1>4. ASSUME NEW level \in Levels, SampleExit(level) \/ ApplyConfig(level) PROVE BootBusy
  BY <1>4 DEF SampleExit, PollExit, Handles, ApplyConfig, ApplyExitConfig, bootVars, resetVars,
              Pressers
<1>5. ASSUME NEW t \in Pressers, Press(t) PROVE BootBusy
  BY <1>5 DEF Press, HandlePress, Handles, BeginSave, bootVars, resetVars, Pressers
<1>6. CASE OtherSave
  BY <1>6 DEF OtherSave, BeginSave, SaveConfig, bootVars, exitVars
<1>7. CASE Reset
  BY <1>7 DEF Reset, FactoryResetAndReboot, ResetStores, ResetSaves, ReadBack,
              WipeProvisioning, Unmount, bootVars,
              exitVars
<1>. QED BY <1>1, <1>2, <1>3, <1>4, <1>5, <1>6, <1>7 DEF Next

(* A step that neither ages nor samples BOOT keeps what its engine keeps. *)
LEMMA BootRests ==
  ASSUME BootInv, UNCHANGED <<gestures, sampled>>, gesture' \in {gesture, "none"},
         BootBusy' => BootBusy
  PROVE  BootInv'
<1>1. gesture' \in GestureNames
  BY DEF BootInv, GestureNames
<1>2. HoldIsWatched'
  BY DEF BootInv, HoldIsWatched
<1>. QED BY <1>1, <1>2 DEF BootInv, Answered

(* No click is forgotten, and no hold grows unwatched. *)
LEMMA BootInductive ==
  ASSUME handling \in [Pressers -> Handling], BootInv, [Next]_vars
  PROVE  BootInv'
<1>1. CASE Tick
  <2>1. /\ gestures' = Aged(gestures) /\ gesture' = gesture /\ sampled' = {}
        /\ UNCHANGED <<handling, resetAt>>
        /\ BootBusy \/ "va_boot_btn" \in sampled
    BY <1>1 DEF Tick, resetVars
  <2>2. gestures' \in EngineStates /\ Answered(gestures')
        /\ gestures'.hold = gestures.hold /\ gestures'.held <= gestures.held + 1
    BY <2>1, AgedFacts DEF BootInv
  <2>3. BootBusy' => BootBusy
    BY <2>1 DEF BootBusy, Idle, Resetting
  <2>4. ASSUME gestures'.hold = "held" PROVE ~BootBusy' /\ gestures'.held <= WarnAfter
    <3>1. ~BootBusy /\ gestures.held < WarnAfter
      BY <2>1, <2>2, <2>4 DEF BootInv, HoldIsWatched
    <3>. QED BY <2>2, <2>3, <3>1, GestureTimes DEF BootInv, EngineStates
  <2>. QED BY <2>1, <2>2, <2>4 DEF BootInv, HoldIsWatched, Answered
<1>2. ASSUME NEW down \in BOOLEAN, SampleBoot(down) PROVE BootInv'
  <2> DEFINE report == ApplyRaw(gestures, down)
  <2>1. /\ gestures' = report.engine /\ gesture' = report.gesture /\ ~BootBusy
        /\ sampled' = sampled \cup {"va_boot_btn"} /\ UNCHANGED <<handling, resetAt>>
    BY <1>2 DEF SampleBoot, exitVars, resetVars
  <2>2. /\ report.engine \in EngineStates /\ Answered(report.engine)
        /\ report.gesture \in GestureNames
        /\ report.engine.hold = "held" =>
             report.gesture = "none" /\ report.engine.held < WarnAfter
    BY ReportFacts DEF BootInv
  <2> HIDE DEF report
  <2>3. gestures'.hold = "held" => ~BootBusy' /\ gestures'.held < WarnAfter
    BY <2>1, <2>2 DEF BootBusy, Idle, Resetting
  <2>4. gestures'.held \in Nat
    BY <2>1, <2>2, GestureTimes DEF EngineStates
  <2>. QED BY <2>1, <2>2, <2>3, <2>4, GestureTimes DEF BootInv, HoldIsWatched, Answered
<1>3. ASSUME NEW level \in Levels, Reboot(level) PROVE BootInv'
  <2>1. gestures' = Seeded(FALSE) /\ gesture' = "none"
    BY <1>3 DEF Reboot
  <2>2. Seeded(FALSE) \in EngineStates /\ Answered(Seeded(FALSE)) /\ Seeded(FALSE).hold = "none"
    BY GestureTimes DEF Seeded, EngineStates, Answered
  <2>. QED BY <2>1, <2>2 DEF BootInv, HoldIsWatched, GestureNames, Answered
<1>4. CASE LongPress
  <2>1. Seeded(TRUE) \in EngineStates /\ Answered(Seeded(TRUE)) /\ Seeded(TRUE).hold = "none"
    BY GestureTimes DEF Seeded, EngineStates, Answered
  <2>. QED BY <1>4, <2>1 DEF LongPress, BootInv, HoldIsWatched, GestureNames, Answered
<1>5. CASE ~Tick /\ ~LongPress /\ ~(\E down \in BOOLEAN : SampleBoot(down))
           /\ ~(\E level \in Levels : Reboot(level))
  <2>1. BootBusy' => BootBusy
    BY <1>5, BusyBefore
  <2>2. UNCHANGED gestures /\ gesture' \in {gesture, "none"}
    BY <1>5 DEF Next, vars, bootVars, HandleGesture, Announce, DoubleClick,
                GestureEnds, AskAgain, SampleExit, ApplyConfig, Press, OtherSave, Reset
  <2>3. UNCHANGED sampled \/ \E level \in Levels : SampleExit(level)
    BY <1>5 DEF Next, vars, bootVars, HandleGesture, Announce, DoubleClick,
                GestureEnds, AskAgain, ApplyConfig, Press, OtherSave, Reset
  <2>4. CASE UNCHANGED sampled
    BY <2>1, <2>2, <2>4, BootRests
  <2>5. CASE \E level \in Levels : SampleExit(level)
    <3>1. "va_boot_btn" \in sampled' <=> "va_boot_btn" \in sampled
      BY <2>5 DEF SampleExit
    <3>2. HoldIsWatched'
      BY <2>1, <2>2, <3>1 DEF BootInv, HoldIsWatched
    <3>. QED BY <2>2, <3>2 DEF BootInv, Answered, GestureNames
  <2>. QED BY <2>3, <2>4, <2>5
<1>. QED BY <1>1, <1>2, <1>3, <1>4, <1>5

(* The exit button is armed again only by a release it has read. *)
LEMMA ExitInductive ==
  ASSUME ExitInv, [Next]_vars
  PROVE  ExitInv'
<1> USE DEF ExitInv, ExitRemembers
<1>1. CASE Tick
  <2>1. /\ rex' = Older(rex) /\ UNCHANGED <<driver, letGo>>
        /\ rested' = IF rested = Cooldown THEN rested ELSE rested + 1
    BY <1>1 DEF Tick
  <2>2. /\ rex' \in RexStates /\ rex'.armed = rex.armed
        /\ rex'.cooldown >= rex.cooldown - 1
    BY <2>1, OlderFacts
  <2>3. rested' \in 0 .. Cooldown /\ rex'.cooldown + rested' >= Cooldown
    BY <2>1, <2>2, ExitTimes DEF RexStates
  <2>. QED BY <2>1, <2>2, <2>3
<1>2. ASSUME NEW mode \in Drivers, NEW level \in Levels,
             driver' = mode, rex' = SeededAs(mode, level), Forget(mode, level)
      PROVE  ExitInv'
  <2>1. rex' \in RexStates /\ rex'.cooldown = 0
        /\ (rex'.armed => mode # "wired" \/ level = "up")
    BY <1>2, SeededAsFacts
  <2>2. letGo' \in BOOLEAN /\ (letGo' <=> mode # "wired" \/ level = "up")
    BY <1>2 DEF Forget
  <2>3. rested' \in 0 .. Cooldown /\ rex'.cooldown + rested' >= Cooldown
    BY <1>2, <2>1, ExitTimes DEF Forget
  <2>. QED BY <1>2, <2>1, <2>2, <2>3
<1>3. ASSUME NEW level \in Levels, ApplyConfig(level) PROVE ExitInv'
  BY <1>2, <1>3 DEF ApplyConfig, ApplyExitConfig
<1>4. ASSUME NEW level \in Levels, Reboot(level) PROVE ExitInv'
  BY <1>2, <1>4 DEF Reboot, RestartExit
<1>5. ASSUME NEW level \in Levels, SampleExit(level) PROVE ExitInv'
  <2> DEFINE noted == Noted(rex, level)
  <2>1. /\ rex' = Committed(noted) /\ UNCHANGED driver
        /\ IF Fires(noted) THEN letGo' = FALSE /\ rested' = 0
           ELSE letGo' = (letGo \/ level = "up") /\ UNCHANGED rested
    BY <1>5 DEF SampleExit, PollExit
  <2>2. /\ rex' \in RexStates
        /\ rex'.armed => (rex.armed \/ level = "up")
        /\ Fires(noted) => ~rex'.armed /\ rex'.cooldown = Cooldown
        /\ ~Fires(noted) => rex'.cooldown = rex.cooldown
    BY <2>1, CommittedFacts
  <2> HIDE DEF noted
  <2>3. CASE Fires(noted)
    <3>1. letGo' = FALSE /\ rested' = 0 /\ ~rex'.armed /\ rex'.cooldown = Cooldown
      BY <2>1, <2>2, <2>3
    <3>2. rested' \in 0 .. Cooldown /\ rex'.cooldown + rested' >= Cooldown
      BY <3>1, ExitTimes
    <3>. QED BY <2>1, <2>2, <3>1, <3>2
  <2>4. CASE ~Fires(noted)
    <3>1. letGo' \in BOOLEAN /\ (letGo' <=> letGo \/ level = "up")
      BY <2>1, <2>4
    <3>. QED BY <2>1, <2>2, <2>4, <3>1
  <2>. QED BY <2>3, <2>4
<1>6. CASE UNCHANGED <<driver, rex, letGo, rested>>
  BY <1>6
<1>7. CASE HandleGesture \/ AskAgain \/ OtherSave \/ Reset \/ UNCHANGED vars
           \/ (\E down \in BOOLEAN : SampleBoot(down)) \/ (\E t \in Pressers : Press(t))
  BY <1>6, <1>7 DEF HandleGesture, Announce, DoubleClick, LongPress, GestureEnds, SyntheticRex,
                    AskAgain, TriggerPress, OtherSave, Reset, SampleBoot, Press, exitVars,
                    watchVars, vars
<1>. QED BY <1>1, <1>3, <1>4, <1>5, <1>7 DEF Next

(* What a reset has seen stays gone, whatever other tasks save meanwhile. *)
LEMMA ResetInductive ==
  ASSUME ResetIsDone, [Next]_vars
  PROVE  ResetIsDone'
<1> USE DEF ResetIsDone, NoSettings, NoKey, Seen
<1>1. CASE UNCHANGED <<resetAt, again, resetHistory, doc, nvs>>
  BY <1>1 DEF resetHistory
<1>2. CASE Tick \/ UNCHANGED vars \/ AskAgain
           \/ (\E down \in BOOLEAN : SampleBoot(down))
           \/ (\E level \in Levels : SampleExit(level) \/ ApplyConfig(level))
  BY <1>1, <1>2 DEF Tick, vars, AskAgain, SampleBoot, SampleExit, ApplyConfig, resetVars,
                    resetHistory
<1>3. CASE HandleGesture
  BY <1>1, <1>3 DEF HandleGesture, Announce, DoubleClick, LongPress, BeginReset, resetVars,
                    resetHistory
<1>4. CASE \E t \in Pressers : Press(t)
  BY <1>1, <1>4 DEF Press, HandlePress, BeginSave, resetVars, storeVars, resetHistory
<1>5. CASE OtherSave
  <2>1. CASE BeginSave("live")
    BY <1>1, <2>1 DEF BeginSave, storeVars
  <2>2. CASE SaveConfig
    BY <2>2 DEF SaveConfig, Written
  <2>. QED BY <1>5, <2>1, <2>2 DEF OtherSave
<1>6. CASE Reset
  <2>1. CASE Unmount
    BY <2>1 DEF Unmount, ResetGoes, storeVars, resetHistory
  <2>2. CASE WipeProvisioning
    BY <2>2 DEF WipeProvisioning, Wiped, ResetGoes, resetHistory
  <2>3. CASE ReadBack
    BY <2>3 DEF ReadBack, ResetGoes, ResetFails, storeVars, resetHistory
  <2>4. CASE ResetSaves
    BY <2>4 DEF ResetSaves, ResetGoes, ResetFails, WriteTemp, RenameTemp, WriteSecrets
  <2>. QED BY <1>6, <2>1, <2>2, <2>3, <2>4 DEF Reset, FactoryResetAndReboot, ResetStores
<1>7. CASE \E level \in Levels : Reboot(level)
  BY <1>7 DEF Reboot, Restart
<1>. QED BY <1>2, <1>3, <1>4, <1>5, <1>6, <1>7 DEF Next

(* The invariant of every reachable state. *)
THEOREM Invariance == Spec => []IInv
<1>1. IInv /\ [Next]_vars => IInv'
  BY HandlingTyped, BootInductive, ExitInductive, ResetInductive DEF IInv
<1>. QED BY <1>1, InitInv, PTL DEF Spec

-----------------------------------------------------------------------------
(* The properties *)

(* Every variable has its type: no engine counts past the third click. *)
THEOREM TypeCorrect == Spec => []TypeOK
<1>1. IInv => TypeOK
  BY DEF IInv, BootInv, ExitInv, TypeOK
<1>. QED BY <1>1, Invariance, PTL

(* core/service_button.cpp:78-95: for every debounce and click window, clicks *)
(* that were counted wait for their window or for the hold that follows.      *)
THEOREM NoClickForgotten == Spec => []ClicksAnswered
<1>1. IInv => ClicksAnswered
  BY DEF IInv, BootInv, Answered, ClicksAnswered
<1>. QED BY <1>1, Invariance, PTL

(* core/exit_button.cpp:30-39, 68-92: whatever the debounce and the cooldown, *)
(* and whichever settings come in between, the exit button fires again only   *)
(* after it was read up and its cooldown is over.                             *)
THEOREM OneOpeningPerPress == Spec => NoRefire
<1>1. ASSUME IInv, [Next]_vars, handling["va_rex"] = "idle", handling'["va_rex"] = "press"
      PROVE  letGo /\ rested = Cooldown
  <2>1. PICK level \in Levels : SampleExit(level)
    BY <1>1 DEF IInv, Next, vars, Tick, exitVars, HandleGesture, Announce, DoubleClick,
                LongPress, SyntheticRex, Handles, AskAgain, TriggerPress, ApplyConfig,
                ApplyExitConfig, Reboot, RestartExit, AllIdle, SampleBoot, Press, HandlePress,
                OtherSave, Reset, Pressers
  <2>2. Fires(Noted(rex, level))
    BY <1>1, <2>1 DEF SampleExit, PollExit, Handles, IInv, Pressers
  <2>3. rex.armed /\ rex.cooldown = 0
    BY <1>1, <2>2, CommittedFacts DEF IInv, ExitInv
  <2>. QED BY <1>1, <2>3, ExitTimes DEF IInv, ExitInv, ExitRemembers
<1>. QED BY <1>1, Invariance, PTL DEF Spec, NoRefire

(* core/service_button.cpp:99-110: with the warning due before the reset, as  *)
(* the defaults of service_button.hpp have it, nothing but a hold that was    *)
(* announced resets the reader.                                               *)
THEOREM NoResetUnwarned ==
  ASSUME WarnAfter < ResetAfter
  PROVE  Spec => ResetIsWarned
<1>1. ASSUME IInv, [Next]_vars, gesture' = "reset", gesture # "reset"
      PROVE  gestures.hold = "warned"
  <2>1. PICK down \in BOOLEAN : SampleBoot(down)
    BY <1>1 DEF Next, vars, Tick, HandleGesture, Announce, DoubleClick, LongPress,
                GestureEnds, AskAgain, SampleExit, ApplyConfig, Reboot, Press, OtherSave,
                Reset, bootVars
  <2>2. gestures.hold # "none" /\ gestures.held = ResetAfter
    BY <1>1, <2>1, ReportFacts DEF SampleBoot, IInv, BootInv
  <2>3. gestures.hold = "held" => gestures.held <= WarnAfter
    BY <1>1 DEF IInv, BootInv, HoldIsWatched
  <2>4. gestures.hold # "held"
    BY <2>2, <2>3, GestureTimes
  <2>. QED BY <1>1, <2>2, <2>4 DEF IInv, BootInv, EngineStates
<1>. QED BY <1>1, Invariance, PTL DEF Spec, ResetIsWarned

(* service_button.cpp:87-124: whichever writes, renames and wipes failed, and  *)
(* whoever saved meanwhile, a reader that restarts from a factory reset has    *)
(* neither settings nor key, except in a store that refused the last wipe or   *)
(* that another task wrote after the reset had looked at it.                   *)
THEOREM ResetLeavesNothing == Spec => ResetErases
<1>1. ASSUME IInv, resetAt = "release"
      PROVE  /\ NoSettings \/ "doc" \in late \cup refused
             /\ NoKey \/ "nvs" \in late \cup refused
  BY <1>1 DEF IInv, ResetIsDone, Seen
<1>. QED BY <1>1, Invariance, PTL DEF Spec, ResetErases

=============================================================================
