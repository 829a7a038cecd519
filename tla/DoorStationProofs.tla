------------------------- MODULE DoorStationProofs -------------------------
(***************************************************************************)
(* Proofs about DoorStation, for any number of tasks that pulse the relay. *)
(***************************************************************************)
EXTENDS DoorStation, Naturals, SequenceTheorems, TLAPS

(* The actions that touch the relay, and the ones that leave it alone. *)
RelayStep ==
  \/ \E t \in Callers : \/ PulseDrive(t) \/ PulseArm(t)
                        \/ \E isOpen \in BOOLEAN : PulseReadDoor(t, isOpen)
  \/ TimerFires \/ ReleaseLine \/ OnDoorOpen \/ OnDoorClosed \/ ConfigureRelay

(* Only a ready driver energises the coil, and only an energised one is in *)
(* an until_closed cycle.                                                  *)
LineOK ==
  /\ active => ready
  /\ ~active => phase = "idle"
  /\ phase # "idle" => untilClosed

(* The mutex: one task inside Pulse, and what it found stays as it found it. *)
PulseExcludes ==
  /\ \A t, u \in Callers : pulse[t] # "out" /\ pulse[u] # "out" => t = u
  /\ \A t \in Callers : pulse[t] = "readDoor" => active /\ untilClosed

RelayInv == RelayTypeOK /\ LineOK /\ PulseExcludes /\ EnergizedIsReleased

(* A step of the system is a step of the relay or leaves all of it alone. *)
LEMMA RelaySteps == ASSUME [Next]_vars PROVE RelayStep \/ UNCHANGED relayVars
<1>1. CASE Next
  <2>1. CASE \E t \in Callers : CallerStep(t)
    BY <2>1 DEF CallerStep, BeginPulse, ReadDoor, ArmRelease, RelayStep, DoorIsOpen
  <2>2. CASE Fire \/ Release
    BY <2>2 DEF Fire, Release, RelayStep
  <2>3. CASE MoveDoor
    BY <2>3 DEF MoveDoor
  <2>4. CASE WatcherStep
    BY <2>4 DEF WatcherStep, WatcherOnly, PollReed, Publish, BeginEmit, EmitCue,
                EmitHook, PostAnswered, PostRejected, RelayStep
  <2>5. CASE BuzzerWorker \/ Beep
    BY <2>5 DEF BuzzerWorker, Beep, BuzzerOnly
  <2>6. CASE SetupMode
    BY <2>6 DEF SetupMode
  <2>7. CASE Reconfigure
    BY <2>7 DEF Reconfigure, RelayStep
  <2> QED
    BY <1>1, <2>1, <2>2, <2>3, <2>4, <2>5, <2>6, <2>7 DEF Next
<1>2. CASE UNCHANGED vars
  BY <1>2 DEF vars
<1> QED
  BY <1>1, <1>2

(* The relay's part of the invariant, step by step. *)
LEMMA RelayInductive == ASSUME RelayInv, RelayStep PROVE RelayInv'
<1> USE DEF RelayInv, RelayTypeOK, LineOK, PulseExcludes, EnergizedIsReleased, Phases, lineVars,
            RelayLocked
<1>1. ASSUME NEW t \in Callers, PulseDrive(t) PROVE RelayInv'
  BY <1>1 DEF PulseDrive, At
<1>2. ASSUME NEW t \in Callers, NEW isOpen \in BOOLEAN, PulseReadDoor(t, isOpen)
      PROVE  RelayInv'
  BY <1>2 DEF PulseReadDoor, At
<1>3. ASSUME NEW t \in Callers, PulseArm(t) PROVE RelayInv'
  BY <1>3 DEF PulseArm, At, DriveIdle
<1>4. CASE TimerFires
  BY <1>4 DEF TimerFires
<1>5. CASE ReleaseLine
  BY <1>5 DEF ReleaseLine, DriveIdle
<1>6. CASE OnDoorOpen
  BY <1>6 DEF OnDoorOpen
<1>7. CASE OnDoorClosed
  BY <1>7 DEF OnDoorClosed, DriveIdle
<1>8. CASE ConfigureRelay
  BY <1>8 DEF ConfigureRelay, DriveIdle
<1> QED
  BY <1>1, <1>2, <1>3, <1>4, <1>5, <1>6, <1>7, <1>8 DEF RelayStep

(* The relay's own invariant, whatever the rest of the station does. *)
LEMMA RelayInvariant == Spec => []RelayInv
<1>1. Init => RelayInv
  BY DEF Init, RelayInit, RelayInv, RelayTypeOK, LineOK, PulseExcludes,
         EnergizedIsReleased, Phases
<1>2. RelayInv /\ [Next]_vars => RelayInv'
  <2> SUFFICES ASSUME RelayInv, [Next]_vars PROVE RelayInv'
    OBVIOUS
  <2>1. CASE RelayStep
    BY <2>1, RelayInductive
  <2>2. CASE UNCHANGED relayVars
    BY <2>2 DEF relayVars, RelayInv, RelayTypeOK, LineOK, PulseExcludes,
                EnergizedIsReleased, RelayLocked
  <2> QED
    BY <2>1, <2>2, RelaySteps
<1> QED
  BY <1>1, <1>2, PTL DEF Spec

(* relay.cpp Pulse, "fail closed": however many tasks pulse the relay while  *)
(* settings re-arm it and the timer fires, an energised coil always has a    *)
(* release on its way.                                                       *)
THEOREM FailClosed == Spec => []EnergizedIsReleased
BY RelayInvariant, PTL DEF RelayInv

-----------------------------------------------------------------------------
(* The va_door task *)

(* The shape of what a poll may leave to be emitted. *)
LEMMA StepShapes ==
  ASSUME NEW s \in DoorContactStep, s # <<>>
  PROVE  /\ Tail(s) \in DoorContactStep
         /\ Len(s) = 1 <=> Tail(s) = <<>>
         /\ Head(s) = s[1] /\ DOMAIN s = 1 .. Len(s)
         /\ \/ Len(s) = 1 /\ s[1] \in {"opened", "closed", "held_open"}
            \/ Len(s) = 2 /\ s[1] = "held_open" /\ s[2] = "closed" /\ Tail(s) = <<"closed">>
<1>1. ASSUME NEW kind \in {"opened", "closed", "held_open"}, s = <<kind>>
      PROVE  /\ Tail(s) = <<>> /\ Len(s) = 1 /\ Head(s) = kind /\ s[1] = kind
             /\ DOMAIN s = 1 .. Len(s)
  BY <1>1
<1>2. CASE s = <<"held_open", "closed">>
  <2>1. /\ Tail(s) = <<"closed">> /\ Len(s) = 2 /\ Head(s) = "held_open"
        /\ s[1] = "held_open" /\ s[2] = "closed" /\ DOMAIN s = 1 .. Len(s)
    BY <1>2
  <2>2. <<"closed">> # <<>> /\ <<"closed">> \in DoorContactStep
    BY DEF DoorContactStep
  <2> QED
    BY <2>1, <2>2
<1>3. <<>> \in DoorContactStep
  BY DEF DoorContactStep
<1> QED
  BY <1>1, <1>2, <1>3 DEF DoorContactStep

(* The shape of what an engine step hands over. *)
LEMMA EmittedShapes ==
  ASSUME NEW heldDue \in BOOLEAN, NEW committed \in BOOLEAN, door \in Readings
  PROVE  Emitted(heldDue, committed) =
           IF heldDue
           THEN IF committed THEN <<"held_open", IF door = "open" THEN "opened" ELSE "closed">>
                ELSE <<"held_open">>
           ELSE IF committed THEN <<IF door = "open" THEN "opened" ELSE "closed">> ELSE <<>>
<1>1. CASE heldDue /\ committed
  <2>1. ASSUME NEW a, NEW b PROVE Append(<<a>>, b) = <<a, b>>
    <3>1. <<a>> \in Seq({a, b}) /\ <<a, b>> \in Seq({a, b})
      OBVIOUS
    <3>2. /\ Append(<<a>>, b) \in Seq({a, b}) /\ Len(Append(<<a>>, b)) = 2
          /\ Append(<<a>>, b)[1] = a /\ Append(<<a>>, b)[2] = b
      BY <3>1, AppendProperties
    <3>3. Len(<<a, b>>) = 2 /\ \A i \in 1 .. 2 : Append(<<a>>, b)[i] = <<a, b>>[i]
      BY <3>2
    <3> QED
      BY <3>1, <3>2, <3>3, SeqEqual, Zenon
  <2> QED
    BY <1>1, <2>1 DEF Emitted
<1>2. CASE heldDue /\ ~committed
  BY <1>2 DEF Emitted
<1>3. CASE ~heldDue /\ committed
  BY <1>3 DEF Emitted
<1>4. CASE ~heldDue /\ ~committed
  BY <1>4 DEF Emitted
<1> QED
  BY <1>1, <1>2, <1>3, <1>4

(* Every variable keeps the type the code gives it, and one poll hands Emit   *)
(* at most a held_open and then a close.                                      *)
THEOREM TypeCorrect == Spec => []TypeOK
<1>1. Init => TypeOK
  BY DEF Init, RelayInit, ContactInit, BuzzerInit, TypeOK, RelayTypeOK, ContactTypeOK,
         BuzzerTypeOK, Phases, Readings, DoorContactStep, DoorIsOpen
<1>2. TypeOK /\ [Next]_vars => (ContactTypeOK /\ BuzzerTypeOK)'
  <2> SUFFICES ASSUME TypeOK, [Next]_vars PROVE (ContactTypeOK /\ BuzzerTypeOK)'
    OBVIOUS
  <2> USE DEF TypeOK, ContactTypeOK, BuzzerTypeOK, contactVars, engineVars, buzzerVars,
              RelayOnly, WatcherOnly, Readings, Cues
  <2>1. CASE \E t \in Callers : CallerStep(t)
    BY <2>1 DEF CallerStep, BeginPulse, ReadDoor, ArmRelease
  <2>2. CASE Fire \/ Release
    BY <2>2 DEF Fire, Release
  <2>3. CASE MoveDoor
    BY <2>3 DEF MoveDoor, DoorMoves
  <2>4. CASE PollReed
    <3>1. PICK heldDue \in {FALSE, HeldFires} : Settle(heldDue) \/ Commit(heldDue)
      BY <2>4 DEF PollReed, Poll
    <3>2. heldDue \in BOOLEAN /\ (heldDue => stable = "open")
      BY <3>1 DEF HeldFires
    <3>3. CASE Settle(heldDue)
      BY <2>4, <3>2, <3>3, EmittedShapes DEF PollReed, Poll, Settle, DoorContactStep
    <3>4. CASE Commit(heldDue)
      <4>1. events' \in DoorContactStep
        BY <3>2, <3>4, EmittedShapes DEF Commit, DoorContactStep
      <4> QED
        BY <2>4, <3>2, <3>4, <4>1 DEF PollReed, Poll, Commit
    <3> QED
      BY <3>1, <3>3, <3>4
  <2>5. CASE Publish \/ BeginEmit
    BY <2>5 DEF Publish, PublishHealth, BeginEmit, EmitStep, EmitRefused, DropEvents,
                DoorContactStep
  <2>6. CASE EmitCue
    BY <2>6, StepShapes DEF EmitCue, EmitStep, Enqueue
  <2>7. CASE EmitHook
    BY <2>7 DEF EmitHook, EmitStep
  <2>8. CASE PostAnswered
    BY <2>8, StepShapes DEF PostAnswered, Posted
  <2>9. CASE PostRejected
    BY <2>9 DEF PostRejected, PostUnauthorized, DropEvents, DoorContactStep
  <2>10. CASE BuzzerWorker \/ Beep
    BY <2>10 DEF BuzzerWorker, Beep, BuzzerOnly, TakeCue, PlayHeldOpen, Enqueue
  <2>11. CASE SetupMode
    BY <2>11 DEF SetupMode
  <2>12. CASE Reconfigure
    BY <2>12 DEF Reconfigure, ConfigureContact, ConfigureBuzzer
  <2>13. CASE UNCHANGED vars
    BY <2>13 DEF vars
  <2> QED
    BY <2>1, <2>2, <2>3, <2>4, <2>5, <2>6, <2>7, <2>8, <2>9, <2>10, <2>11, <2>12,
       <2>13 DEF Next, WatcherStep
<1>3. TypeOK /\ [Next]_vars => (configured \in BOOLEAN /\ seenOpen \in BOOLEAN)'
  BY DEF TypeOK, ContactTypeOK, Next, vars, CallerStep, BeginPulse, ReadDoor, ArmRelease,
         RelayOnly, Fire, Release, MoveDoor, WatcherStep, WatcherOnly, PollReed, Publish,
         BeginEmit, EmitCue, EmitHook, PostAnswered, PostRejected, BuzzerWorker, Beep,
         BuzzerOnly, SetupMode, Reconfigure
<1>4. TypeOK /\ [Next]_vars /\ RelayInv' => TypeOK'
  BY <1>2, <1>3 DEF TypeOK, RelayInv
<1> QED
  BY <1>1, <1>4, RelayInvariant, PTL DEF Spec

-----------------------------------------------------------------------------
(* From the reed to the relay and the buzzer, as long as Identity accepts the *)
(* key and nobody moves the settings: those two are what can lose an event.   *)

(* What is left to emit agrees with the state the engine reached: an event of *)
(* an earlier poll never waits behind a newer reading.                        *)
EventsMatch ==
  \/ events = <<>>
  \/ contact /\ stable = "open" /\ events \in {<<"opened">>, <<"held_open">>}
  \/ contact /\ stable = "closed" /\ events \in {<<"closed">>, <<"held_open", "closed">>}

NominalInv ==
  TypeOK /\ RelayInv /\ configured /\ EventsMatch /\ CloseReachesRelay /\ AlarmHasStop

(* CloseToCome for what is left to emit when va_door stands at some step. *)
ToCome(s, at, done) == \E k \in DOMAIN s : s[k] = "closed" /\ ~(k = 1 /\ at \in done)

(* Where a close may stand among the events to emit. *)
LEMMA CloseShapes ==
  ASSUME NEW at, NEW done
  PROVE  /\ ~ToCome(<<>>, at, done)
         /\ ToCome(<<"closed">>, at, done) <=> at \notin done
         /\ ToCome(<<"held_open", "closed">>, at, done)
<1>1. /\ DOMAIN <<>> = {}
      /\ DOMAIN <<"closed">> = {1} /\ <<"closed">>[1] = "closed"
      /\ 2 \in DOMAIN <<"held_open", "closed">> /\ <<"held_open", "closed">>[2] = "closed"
  OBVIOUS
<1> QED
  BY <1>1 DEF ToCome

(* The close that is to come, said of the events and the watcher. *)
LEMMA CloseIsToCome ==
  ASSUME NEW done
  PROVE  /\ CloseToCome(done) <=> ToCome(events, watcher, done)
         /\ CloseToCome(done)' <=> ToCome(events', watcher', done)
BY DEF CloseToCome, ToCome

(* The shape of the events is kept while key and settings are. *)
LEMMA EventsInductive ==
  ASSUME ~Reconfigurable, TypeOK, EventsMatch, [Next]_vars
  PROVE  EventsMatch'
<1> USE DEF EventsMatch, contactVars, engineVars
<1>1. CASE \E t \in Callers : CallerStep(t)
  BY <1>1 DEF CallerStep, BeginPulse, ReadDoor, ArmRelease, RelayOnly
<1>2. CASE Fire \/ Release
  BY <1>2 DEF Fire, Release, RelayOnly
<1>3. CASE MoveDoor
  BY <1>3 DEF MoveDoor, DoorMoves
<1>4. CASE PollReed
  <2>1. PICK heldDue \in {FALSE, HeldFires} : Settle(heldDue) \/ Commit(heldDue)
    BY <1>4 DEF PollReed, Poll
  <2>2. heldDue \in BOOLEAN /\ (heldDue => stable = "open") /\ door \in Readings
    BY <2>1 DEF HeldFires, TypeOK, ContactTypeOK
  <2>3. CASE Settle(heldDue)
    BY <1>4, <2>2, <2>3, EmittedShapes DEF PollReed, Poll, Settle
  <2>4. CASE Commit(heldDue)
    BY <1>4, <2>2, <2>4, EmittedShapes DEF PollReed, Poll, Commit, Readings
  <2> QED
    BY <2>1, <2>3, <2>4
<1>5. CASE Publish \/ BeginEmit
  BY <1>5 DEF Publish, PublishHealth, BeginEmit, EmitStep, EmitRefused, DropEvents
<1>6. CASE EmitCue \/ EmitHook
  BY <1>6 DEF EmitCue, EmitHook, EmitStep
<1>7. CASE PostAnswered
  <2>1. events # <<>> /\ events \in DoorContactStep
    BY <1>7 DEF PostAnswered, Posted, TypeOK, ContactTypeOK
  <2>2. \/ Tail(events) = <<>>
        \/ Len(events) = 2 /\ Tail(events) = <<"closed">>
    BY <2>1, StepShapes
  <2>3. CASE Tail(events) = <<>>
    BY <1>7, <2>3 DEF PostAnswered, Posted
  <2>4. CASE Len(events) = 2 /\ Tail(events) = <<"closed">>
    <3>1. events \notin {<<>>, <<"opened">>, <<"held_open">>, <<"closed">>}
      BY <2>4
    <3>2. contact /\ stable = "closed"
      BY <3>1
    <3>3. events' = Tail(events) /\ UNCHANGED <<contact, stable>>
      BY <1>7 DEF PostAnswered, Posted
    <3> QED
      BY <2>4, <3>2, <3>3
  <2> QED
    BY <2>2, <2>3, <2>4
<1>8. CASE PostRejected
  BY <1>8 DEF PostRejected, PostUnauthorized, DropEvents
<1>9. CASE BuzzerWorker \/ Beep \/ SetupMode \/ UNCHANGED vars
  BY <1>9 DEF BuzzerWorker, Beep, BuzzerOnly, SetupMode, vars
<1> QED
  BY <1>1, <1>2, <1>3, <1>4, <1>5, <1>6, <1>7, <1>8, <1>9
     DEF Next, WatcherStep, Reconfigure

(* The close to come is kept while key and settings are. *)
LEMMA CloseInductive ==
  ASSUME ~Revocable, ~Reconfigurable, NominalInv, EventsMatch', [Next]_vars
  PROVE  CloseReachesRelay'
<1> USE CloseIsToCome, CloseShapes
    DEF NominalInv, CloseReachesRelay, RelayInv, LineOK, contactVars, engineVars,
        RelayOnly, WatcherOnly
<1> DEFINE Waits == active /\ phase = "waitingClose"
<1>1. ASSUME NEW t \in Callers, CallerStep(t) PROVE CloseReachesRelay'
  <2>1. UNCHANGED <<stable, events, watcher>>
    BY <1>1 DEF CallerStep, BeginPulse, ReadDoor, ArmRelease
  <2>2. Waits' => Waits \/ stable = "open"
    BY <1>1 DEF CallerStep, BeginPulse, ReadDoor, ArmRelease, PulseDrive, PulseReadDoor,
                PulseArm, DriveIdle, DoorIsOpen, PulseExcludes
  <2> QED
    BY <2>1, <2>2
<1>2. CASE Fire \/ Release
  <2>1. UNCHANGED <<stable, events, watcher>> /\ (Waits' => Waits)
    BY <1>2 DEF Fire, Release, TimerFires, ReleaseLine, DriveIdle, lineVars
  <2> QED
    BY <2>1
<1>3. CASE MoveDoor \/ BuzzerWorker \/ Beep \/ SetupMode \/ UNCHANGED vars
  <2>1. UNCHANGED <<stable, events, watcher, active, phase>>
    BY <1>3 DEF MoveDoor, DoorMoves, BuzzerWorker, Beep, BuzzerOnly, SetupMode, relayVars,
                vars
  <2> QED
    BY <2>1
<1>4. CASE PollReed
  <2>1. events = <<>> /\ watcher' = "publish" /\ UNCHANGED <<active, phase>>
    BY <1>4 DEF PollReed, Poll, TypeOK, ContactTypeOK, relayVars
  <2>2. Waits' => stable # "closed"
    BY <2>1
  <2>3. stable' # "closed" \/ stable = "closed" \/ events' # <<>>
    BY <1>4, EmittedShapes
       DEF PollReed, Poll, Settle, Commit, HeldFires, TypeOK, ContactTypeOK, Readings
  <2>4. stable' = "closed" /\ events' # <<>> =>
          events' \in {<<"closed">>, <<"held_open", "closed">>}
    BY DEF EventsMatch
  <2> QED
    BY <2>1, <2>2, <2>3, <2>4
<1>5. CASE Publish \/ BeginEmit \/ EmitCue
  <2>1. events = <<>> \/ contact
    BY DEF EventsMatch
  <2>2. \/ UNCHANGED <<active, phase, stable, events>> /\ watcher' # "post"
        \/ EmitCue
    BY <1>5, <2>1 DEF Publish, PublishHealth, BeginEmit, EmitStep, EmitRefused, TypeOK,
                      ContactTypeOK, relayVars
  <2>3. CASE UNCHANGED <<active, phase, stable, events>> /\ watcher' # "post"
    BY <2>3 DEF EventsMatch
  <2>4. CASE EmitCue
    <3>1. UNCHANGED <<active, phase, stable, events>>
      BY <2>4 DEF EmitCue, EmitStep, relayVars
    <3>2. events = <<"closed">> => watcher' = "hook"
      <4>1. Head(<<"closed">>) = "closed"
        OBVIOUS
      <4> QED
        BY <2>4, <4>1 DEF EmitCue, EmitStep
    <3> QED
      BY <3>1, <3>2 DEF EventsMatch
  <2> QED
    BY <2>2, <2>3, <2>4
<1>6. CASE EmitHook
  <2>1. UNCHANGED <<stable, events>> /\ watcher' = "post"
    BY <1>6 DEF EmitHook, EmitStep
  <2>2. events # <<>> /\ watcher = "hook"
    BY <1>6 DEF EmitHook, EmitStep, TypeOK, ContactTypeOK
  <2>3. CASE stable = "open"
    BY <2>1, <2>3
  <2>4. CASE stable = "closed"
    <3>1. Head(events) # "opened"
      BY <2>2, <2>4 DEF EventsMatch
    <3>2. OnDoorClosed
      BY <1>6, <3>1 DEF EmitHook
    <3>3. ~Waits'
      BY <3>2 DEF OnDoorClosed, DriveIdle
    <3> QED
      BY <3>3
  <2> QED
    BY <2>1, <2>2, <2>3, <2>4 DEF EventsMatch
<1>7. CASE PostAnswered
  <2>1. UNCHANGED <<active, phase, stable>> /\ events' = Tail(events) /\ watcher' # "post"
    BY <1>7 DEF PostAnswered, Posted, relayVars
  <2>2. events # <<>> /\ watcher = "post"
    BY <1>7 DEF PostAnswered, Posted, TypeOK, ContactTypeOK
  <2>3. CASE events = <<"closed">>
    BY <2>1, <2>2, <2>3
  <2>4. CASE events = <<"held_open", "closed">>
    <3>1. Tail(<<"held_open", "closed">>) = <<"closed">>
      OBVIOUS
    <3> QED
      BY <2>1, <2>4, <3>1
  <2>5. CASE stable # "closed"
    BY <2>1, <2>5
  <2> QED
    BY <2>2, <2>3, <2>4, <2>5 DEF EventsMatch
<1> QED
  BY <1>1, <1>2, <1>3, <1>4, <1>5, <1>6, <1>7
     DEF Next, WatcherStep, Reconfigure, PostRejected

(* The end of the alarm is kept in the queue or among the events. *)
LEMMA AlarmInductive ==
  ASSUME ~Revocable, ~Reconfigurable, NominalInv, EventsMatch', [Next]_vars
  PROVE  AlarmHasStop'
<1> USE CloseIsToCome, CloseShapes
    DEF NominalInv, AlarmHasStop, contactVars, engineVars, buzzerVars, RelayOnly,
        WatcherOnly
<1> DEFINE Sounds == alarm \/ cue = "held_open"
           Ends == cue \in {"stop", "beep"}
<1>1. CASE \E t \in Callers : CallerStep(t)
  BY <1>1 DEF CallerStep, BeginPulse, ReadDoor, ArmRelease
<1>2. CASE Fire \/ Release \/ MoveDoor \/ SetupMode \/ UNCHANGED vars
  BY <1>2 DEF Fire, Release, MoveDoor, DoorMoves, SetupMode, vars
<1>3. CASE BuzzerWorker \/ Beep
  <2>1. UNCHANGED <<stable, events, watcher>>
    BY <1>3 DEF BuzzerWorker, Beep, BuzzerOnly
  <2>2. Sounds' => (Sounds /\ ~Ends) \/ Ends'
    BY <1>3 DEF BuzzerWorker, Beep, TakeCue, PlayHeldOpen, Enqueue, TypeOK, BuzzerTypeOK,
                Cues
  <2> QED
    BY <2>1, <2>2
<1>4. CASE PollReed
  <2>1. events = <<>> /\ watcher' = "publish" /\ UNCHANGED <<alarm, cue>>
    BY <1>4 DEF PollReed, Poll, TypeOK, ContactTypeOK
  <2>2. stable' # "closed" \/ stable = "closed" \/ events' # <<>>
    BY <1>4, EmittedShapes
       DEF PollReed, Poll, Settle, Commit, HeldFires, TypeOK, ContactTypeOK, Readings
  <2>3. stable' = "closed" /\ events' # <<>> =>
          events' \in {<<"closed">>, <<"held_open", "closed">>}
    BY DEF EventsMatch
  <2> QED
    BY <2>1, <2>2, <2>3
<1>5. CASE Publish \/ BeginEmit
  <2>1. events = <<>> \/ contact
    BY DEF EventsMatch
  <2>2. UNCHANGED <<alarm, cue, stable, events>> /\ watcher' \notin {"hook", "post"}
    BY <1>5, <2>1 DEF Publish, PublishHealth, BeginEmit, EmitStep, EmitRefused, TypeOK,
                      ContactTypeOK
  <2> QED
    BY <2>2 DEF EventsMatch
<1>6. CASE EmitCue
  <2>1. UNCHANGED <<stable, events>> /\ events # <<>>
    BY <1>6 DEF EmitCue, EmitStep, TypeOK, ContactTypeOK
  <2>2. CASE events = <<"closed">>
    <3>1. Head(<<"closed">>) = "closed"
      OBVIOUS
    <3> QED
      BY <1>6, <2>2, <3>1 DEF EmitCue, Enqueue
  <2>3. CASE stable # "closed" \/ events = <<"held_open", "closed">>
    BY <2>1, <2>3
  <2> QED
    BY <2>1, <2>2, <2>3 DEF EventsMatch
<1>7. CASE EmitHook
  <2>1. UNCHANGED <<alarm, cue, stable, events>> /\ watcher = "hook" /\ watcher' = "post"
    BY <1>7 DEF EmitHook, EmitStep
  <2> QED
    BY <2>1 DEF EventsMatch
<1>8. CASE PostAnswered
  <2>1. UNCHANGED <<alarm, cue, stable>> /\ events' = Tail(events)
        /\ watcher' \notin {"hook", "post"}
    BY <1>8 DEF PostAnswered, Posted
  <2>2. events # <<>> /\ watcher = "post"
    BY <1>8 DEF PostAnswered, Posted, TypeOK, ContactTypeOK
  <2>3. CASE events = <<"held_open", "closed">>
    <3>1. Tail(<<"held_open", "closed">>) = <<"closed">>
      OBVIOUS
    <3> QED
      BY <2>1, <2>3, <3>1
  <2>4. CASE stable # "closed" \/ events = <<"closed">>
    BY <2>1, <2>2, <2>4
  <2> QED
    BY <2>2, <2>3, <2>4 DEF EventsMatch
<1> QED
  BY <1>1, <1>2, <1>3, <1>4, <1>5, <1>6, <1>7, <1>8
     DEF Next, WatcherStep, Reconfigure, PostRejected

(* The three invariants together, for a station left alone. *)
LEMMA NominalInvariant ==
  ASSUME ~Revocable, ~Reconfigurable
  PROVE  Spec => []NominalInv
<1>1. Init => configured /\ EventsMatch /\ CloseReachesRelay /\ AlarmHasStop
  BY DEF Init, RelayInit, ContactInit, BuzzerInit, EventsMatch, CloseReachesRelay,
         AlarmHasStop
<1>2. NominalInv /\ TypeOK' /\ RelayInv' /\ [Next]_vars => NominalInv'
  <2> SUFFICES ASSUME NominalInv, TypeOK', RelayInv', [Next]_vars PROVE NominalInv'
    OBVIOUS
  <2>1. configured'
    BY DEF NominalInv, Next, vars, CallerStep, BeginPulse, ReadDoor, ArmRelease, RelayOnly,
           Fire, Release, MoveDoor, WatcherStep, WatcherOnly, PollReed, Publish, BeginEmit,
           EmitCue, EmitHook, PostAnswered, PostRejected, BuzzerWorker, Beep, BuzzerOnly,
           SetupMode, Reconfigure
  <2>2. EventsMatch'
    BY EventsInductive DEF NominalInv
  <2> QED
    BY <2>1, <2>2, CloseInductive, AlarmInductive DEF NominalInv
<1> QED
  BY <1>1, <1>2, TypeCorrect, RelayInvariant, PTL DEF Spec, NominalInv

(* relay.cpp until_closed: while Identity accepts the key and nobody moves the *)
(* settings, an unlock that waits for the door to close always learns of it.   *)
THEOREM CloseIsNeverLost ==
  ASSUME ~Revocable, ~Reconfigurable
  PROVE  Spec => []CloseReachesRelay
BY NominalInvariant, PTL DEF NominalInv

(* buzzer.cpp held-open alarm: under the same conditions, whatever cues other *)
(* tasks overwrite, it never outlives the closing of the door.                *)
THEOREM AlarmIsStopped ==
  ASSUME ~Revocable, ~Reconfigurable
  PROVE  Spec => []AlarmHasStop
BY NominalInvariant, PTL DEF NominalInv

-----------------------------------------------------------------------------
(* Until closed: what a close may re-lock, whatever the settings and the key do *)

(* A close is among the events still to be emitted. *)
CloseAmong == events \in {<<"closed">>, <<"held_open", "closed">>}

(* A cycle that waits for the close began with the door open or saw it open   *)
(* since, or it was armed by an open of an earlier poll and no close is among *)
(* the events: a close commits only after an open the history has recorded.   *)
CycleInv ==
  /\ contact => stable \in Readings
  /\ stable = "open" => seenOpen
  /\ watcher = "hook" => events \in {<<"opened">>, <<"closed">>}
  /\ active /\ phase = "waitingClose" /\ (\A t \in Callers : pulse[t] # "readDoor")
       => seenOpen \/ ~CloseAmong

(* What each step of the station leaves of a cycle that waits for the close. *)
LEMMA CycleInductive ==
  ASSUME TypeOK, RelayInv, CycleInv, [Next]_vars
  PROVE  CycleInv'
<1> USE DEF CycleInv, contactVars, engineVars, RelayOnly, WatcherOnly
<1> DEFINE Waits == /\ active /\ phase = "waitingClose"
                    /\ \A t \in Callers : pulse[t] # "readDoor"
<1>1. ASSUME NEW t \in Callers, CallerStep(t) PROVE CycleInv'
  <2>1. UNCHANGED <<contact, stable, events, watcher>>
    BY <1>1 DEF CallerStep, BeginPulse, ReadDoor, ArmRelease
  <2>2. CASE BeginPulse(t)
    <3>1. seenOpen' = (stable = "open") /\ ~Waits'
      BY <2>2 DEF BeginPulse, PulseDrive, At, RelayInv, RelayTypeOK
    <3> QED
      BY <2>1, <3>1 DEF CloseAmong
  <2>3. CASE ReadDoor(t)
    <3>1. UNCHANGED seenOpen /\ (Waits' => stable = "open")
      BY <2>3 DEF ReadDoor, PulseReadDoor, DoorIsOpen
    <3> QED
      BY <2>1, <3>1 DEF CloseAmong
  <2>4. CASE ArmRelease(t)
    <3>1. UNCHANGED seenOpen /\ (Waits' => Waits)
      BY <2>4 DEF ArmRelease, PulseArm, At, DriveIdle, RelayInv, RelayTypeOK, LineOK,
                  PulseExcludes
    <3> QED
      BY <2>1, <3>1 DEF CloseAmong
  <2> QED
    BY <1>1, <2>2, <2>3, <2>4 DEF CallerStep
<1>2. CASE Fire \/ Release
  <2>1. UNCHANGED <<contact, stable, events, watcher, seenOpen>> /\ (Waits' => Waits)
    BY <1>2 DEF Fire, Release, TimerFires, ReleaseLine, DriveIdle, lineVars
  <2> QED
    BY <2>1 DEF CloseAmong
<1>3. CASE MoveDoor \/ BuzzerWorker \/ Beep \/ SetupMode \/ UNCHANGED vars
  <2>1. UNCHANGED <<contact, stable, events, watcher, seenOpen, active, phase, pulse>>
    BY <1>3 DEF MoveDoor, DoorMoves, BuzzerWorker, Beep, BuzzerOnly, SetupMode, relayVars,
                vars
  <2> QED
    BY <2>1 DEF CloseAmong
<1>4. CASE PollReed
  <2>1. /\ contact /\ contact' /\ watcher' = "publish"
        /\ UNCHANGED <<active, phase, pulse>>
        /\ seenOpen' = (seenOpen \/ stable' = "open")
    BY <1>4 DEF PollReed, Poll, relayVars
  <2>2. stable' \in Readings
    BY <1>4, <2>1 DEF PollReed, Poll, Settle, Commit, TypeOK, ContactTypeOK
  <2>3. CloseAmong' => stable = "open"
    <3>1. PICK heldDue \in {FALSE, HeldFires} : Settle(heldDue) \/ Commit(heldDue)
      BY <1>4 DEF PollReed, Poll
    <3>2. heldDue \in BOOLEAN /\ (heldDue => stable = "open") /\ door \in Readings
      BY <3>1 DEF HeldFires, TypeOK, ContactTypeOK
    <3>3. CASE Settle(heldDue)
      <4>1. events' \in {<<>>, <<"held_open">>}
        BY <3>2, <3>3, EmittedShapes DEF Settle
      <4> QED
        BY <4>1 DEF CloseAmong
    <3>4. CASE Commit(heldDue) /\ stable # "open"
      <4>1. stable = "closed" /\ ~heldDue
        BY <2>1, <3>2, <3>4 DEF Readings
      <4>2. events' \in {<<>>, <<"opened">>}
        BY <3>2, <3>4, <4>1, EmittedShapes DEF Commit, Readings
      <4> QED
        BY <4>2 DEF CloseAmong
    <3> QED
      BY <3>1, <3>3, <3>4
  <2> QED
    BY <2>1, <2>2, <2>3
<1>5. CASE Publish \/ BeginEmit \/ PostRejected
  <2>1. /\ UNCHANGED <<contact, stable, seenOpen, active, phase, pulse>>
        /\ watcher' # "hook" /\ events' \in {events, <<>>}
    BY <1>5 DEF Publish, PublishHealth, BeginEmit, EmitStep, EmitRefused, PostRejected,
                PostUnauthorized, DropEvents, relayVars
  <2> QED
    BY <2>1 DEF CloseAmong
<1>6. CASE EmitCue
  <2>1. UNCHANGED <<contact, stable, seenOpen, active, phase, pulse, events>>
    BY <1>6 DEF EmitCue, EmitStep, relayVars
  <2>2. watcher' = "hook" => Head(events) # "held_open" /\ events # <<>>
    BY <1>6 DEF EmitCue, EmitStep, TypeOK, ContactTypeOK
  <2>3. Head(<<"held_open">>) = "held_open" /\ Head(<<"held_open", "closed">>) = "held_open"
    OBVIOUS
  <2>4. watcher' = "hook" => events' \in {<<"opened">>, <<"closed">>}
    BY <2>1, <2>2, <2>3 DEF TypeOK, ContactTypeOK, DoorContactStep
  <2> QED
    BY <2>1, <2>4 DEF CloseAmong
<1>7. CASE EmitHook
  <2>1. /\ UNCHANGED <<contact, stable, seenOpen, events>>
        /\ watcher = "hook" /\ watcher' = "post"
    BY <1>7 DEF EmitHook, EmitStep
  <2>2. CASE events = <<"opened">>
    BY <2>1, <2>2 DEF CloseAmong
  <2>3. CASE events = <<"closed">>
    <3>1. Head(<<"closed">>) # "opened"
      OBVIOUS
    <3>2. OnDoorClosed
      BY <1>7, <2>3, <3>1 DEF EmitHook
    <3>3. ~Waits'
      BY <3>2 DEF OnDoorClosed, DriveIdle, RelayInv, LineOK
    <3> QED
      BY <2>1, <3>3
  <2> QED
    BY <2>1, <2>2, <2>3
<1>8. CASE PostAnswered
  <2>1. /\ UNCHANGED <<contact, stable, seenOpen, active, phase, pulse>>
        /\ watcher' # "hook" /\ events # <<>> /\ events' = Tail(events)
    BY <1>8 DEF PostAnswered, Posted, relayVars, TypeOK, ContactTypeOK
  <2>2. CloseAmong' => CloseAmong
    <3>1. ASSUME NEW kind \in {"opened", "closed", "held_open"}, events = <<kind>>
          PROVE  ~CloseAmong'
      BY <2>1, <3>1 DEF CloseAmong
    <3> QED
      BY <2>1, <3>1 DEF CloseAmong, TypeOK, ContactTypeOK, DoorContactStep
  <2> QED
    BY <2>1, <2>2
<1>9. CASE Reconfigure
  <2>1. UNCHANGED <<events, watcher>> /\ seenOpen' = (seenOpen \/ stable' = "open")
    BY <1>9 DEF Reconfigure, ConfigureContact
  <2>2. contact' => stable' \in Readings
    BY <1>9 DEF Reconfigure, ConfigureContact, TypeOK, ContactTypeOK
  <2>3. Waits' => Waits
    BY <1>9 DEF Reconfigure, ConfigureRelay, DriveIdle, relayVars
  <2> QED
    BY <2>1, <2>2, <2>3 DEF CloseAmong
<1> QED
  BY <1>1, <1>2, <1>3, <1>4, <1>5, <1>6, <1>7, <1>8, <1>9 DEF Next, WatcherStep

(* The only step that leaves "hook" for "post" re-locks by OnDoorClosed. *)
LEMMA HookRelocks ==
  ASSUME TypeOK, RelayInv, CycleInv, [Next]_vars,
         watcher = "hook", watcher' = "post", active, ~active'
  PROVE  seenOpen
<1>1. EmitHook
  BY DEF Next, vars, contactVars, CallerStep, BeginPulse, ReadDoor, ArmRelease, RelayOnly,
         Fire, Release, MoveDoor, DoorMoves, WatcherStep, PollReed, Poll, Publish,
         PublishHealth, BeginEmit, EmitStep, EmitRefused, EmitCue, PostAnswered, Posted,
         PostRejected, PostUnauthorized, BuzzerWorker, Beep, BuzzerOnly, SetupMode,
         Reconfigure, ConfigureContact
<1>2. ~OnDoorOpen
  BY DEF OnDoorOpen
<1>3. OnDoorClosed /\ Head(events) # "opened"
  BY <1>1, <1>2 DEF EmitHook
<1>4. phase = "waitingClose" /\ \A t \in Callers : pulse[t] # "readDoor"
  BY <1>3 DEF OnDoorClosed, RelayLocked
<1>5. Head(<<"opened">>) = "opened"
  OBVIOUS
<1>6. CloseAmong
  BY <1>3, <1>5 DEF CycleInv, CloseAmong
<1> QED
  BY <1>4, <1>6 DEF CycleInv

(* README.md:94 "Stay unlocked until reed open->close": whoever pulses the     *)
(* relay, re-arms the drivers or rejects the key meanwhile, a close re-locks   *)
(* the door early only when the reed has read open during this very unlock; a  *)
(* close left over from before it is not taken for the one it waits for.       *)
THEOREM UntilClosedIsKept == Spec => UntilClosedHolds
<1>1. Init => CycleInv
  BY DEF Init, RelayInit, ContactInit, CycleInv, CloseAmong
<1>2. TypeOK /\ RelayInv /\ CycleInv /\ [Next]_vars => CycleInv'
  BY CycleInductive
<1>3. TypeOK /\ RelayInv /\ CycleInv /\ [Next]_vars =>
        [watcher = "hook" /\ watcher' = "post" /\ active /\ ~active' => seenOpen]_vars
  BY HookRelocks
<1> QED
  BY <1>1, <1>2, <1>3, TypeCorrect, RelayInvariant, PTL DEF Spec, UntilClosedHolds

=============================================================================
