---------------------------- MODULE FrigateBridge ----------------------------
(***************************************************************************)
(* The Frigate bridge as a whole: src/frigate/to-vadp.ts turns a message   *)
(* of Frigate about a tracked object into detections, one for each mapped  *)
(* access point that the motion concerns; src/frigate/presence-session.ts  *)
(* suppresses motion that goes on; src/main.ts forwards what is left, one  *)
(* detection after the other, through the outbox of FrigateOutbox.  Time   *)
(* is the frame time of Frigate, in ticks.                                 *)
(***************************************************************************)
EXTENDS FrigateOutbox, FiniteSets

CONSTANTS
  Mappings,       \* FRIGATE_ACCESS_POINT_MAP of one camera and label
  NoZone,         \* the zone of a mapping that names none
  Gap,            \* presenceSessionGapSeconds
  Late,           \* how far a message may be behind the latest one
  MaxFrame        \* bound: the last frame

ASSUME MappingsAssumption ==
  IsFiniteSet(Mappings) /\ \A m \in Mappings : DOMAIN m = {"zone", "debounced"}
ASSUME FramesAssumption == Gap \in Nat \ {0} /\ Late \in Nat /\ MaxFrame \in Nat

VARIABLES
  frame,          \* the latest frame a message was about
  sessions,       \* the last activity of each session, 0 when there is none
  events,         \* the detections of the message that are left to forward
  opened,         \* history: the detection that opened each session
  busy,           \* history: the latest frame with motion, since the restart
  muted           \* history: the sessions whose detection a failed append lost

presenceVars == <<frame, sessions, events, opened, busy, muted>>
allVars == <<vars, presenceVars>>

Zones == {m.zone : m \in Mappings} \ {NoZone}
Debounced == {m \in Mappings : m.debounced}
Frames == 1 .. MaxFrame

Quiet == [m \in Debounced |-> 0]

BridgeInit ==
  /\ Init
  /\ frame = 1
  /\ sessions = Quiet /\ events = {}
  /\ opened = Quiet /\ busy = Quiet /\ muted = {}

-----------------------------------------------------------------------------
(* translateFrigateToVadp; messages that end a track, are false positives or *)
(* carry no object lead to nothing.                                          *)

(* collectMotionTargets: a mapping without a zone hears of new objects, one  *)
(* with a zone of entries into it; a debounced one also of motion inside.    *)
Targets(type, entered, current) ==
  {m \in Mappings :
     \/ m.zone \in entered
     \/ type = "new" /\ m.zone = NoZone
     \/ type = "update" /\ m.debounced /\ m.zone \in current}

(* decidePresenceSession *)
Opens(m, at) == m.debounced => sessions[m] = 0 \/ at > sessions[m] + Gap

(* Faulty variant: motion that is suppressed does not prolong its session. *)
ActivityOfOpenings(targets, at) ==
  [m \in Debounced |-> IF m \in targets /\ Opens(m, at) THEN at ELSE sessions[m]]

(* Opened or prolonged, a session is as old as the message says. *)
Activity(targets, at) ==
  [m \in Debounced |-> IF m \in targets THEN at ELSE sessions[m]]

Later(a, b) == IF a > b THEN a ELSE b

Translate(targets, at) ==
  LET started == {m \in targets : Opens(m, at)}
  IN /\ ingest = "idle" /\ events = {}
     /\ arrived + Cardinality(started) <= Detections
     /\ frame' = Later(frame, at)
     /\ sessions' = Activity(targets, at)
     /\ events' = started
     /\ busy' = [m \in Debounced |-> IF m \in targets THEN Later(busy[m], at) ELSE busy[m]]
     /\ muted' = muted \ started
     /\ UNCHANGED <<vars, opened>>

Motions ==
  {Targets(type, entered, current) :
     type \in {"new", "update"}, entered \in SUBSET Zones, current \in SUBSET Zones} \ {{}}

Message ==
  \E targets \in Motions, at \in {f \in Frames : f + Late >= frame} : Translate(targets, at)

-----------------------------------------------------------------------------
(* processMqttMessage, for each of the detections *)

(* Faulty variant: only the first detection of a message is forwarded. *)
NextEventOnly(m) ==
  /\ m \in events /\ events' = {}
  /\ Arrive
  /\ opened' = IF m.debounced THEN [opened EXCEPT ![m] = arrived'] ELSE opened
  /\ UNCHANGED <<frame, sessions, busy, muted>>

NextEvent(m) ==
  /\ m \in events /\ events' = events \ {m}
  /\ Arrive
  /\ opened' = IF m.debounced THEN [opened EXCEPT ![m] = arrived'] ELSE opened
  /\ UNCHANGED <<frame, sessions, busy, muted>>

Settles == (Forwarded \/ ForwardFails \/ Enqueue) /\ UNCHANGED presenceVars

(* The exception of a failed append leaves the loop: the detections behind   *)
(* it are lost as well, and the sessions they opened stay open.              *)
LeavesLoop ==
  /\ EnqueueFails
  /\ events' = {}
  /\ muted' = muted \cup {m \in Debounced : m \in events \/ opened[m] = arrived}
  /\ UNCHANGED <<frame, sessions, opened, busy>>

Outbox == (StartFlush \/ FlushStep) /\ UNCHANGED presenceVars

(* Sessions are kept in memory. *)
Restart ==
  /\ Crash
  /\ sessions' = Quiet /\ events' = {}
  /\ opened' = Quiet /\ busy' = Quiet /\ muted' = {}
  /\ UNCHANGED frame

BridgeNext ==
  \/ Message \/ Settles \/ LeavesLoop \/ Outbox \/ Restart
  \/ \E m \in Mappings : NextEvent(m)

BridgeSpec == BridgeInit /\ [][BridgeNext]_allVars

FairBridge == BridgeSpec /\ Fairness

-----------------------------------------------------------------------------
(* Properties *)

(* presence-session.ts:24-28: motion that goes on is one session, and one    *)
(* detection, although messages overtake one another and a session's last    *)
(* activity then moves back: none opens until nothing has moved for the gap, *)
(* but for the time by which messages may be late.                           *)
OneSessionAtATime ==
  [][\A m \in Debounced :
       m \in events' \ events /\ busy[m] # 0 => busy'[m] > busy[m] + Gap - Late]_allVars

(* install/frigate/README.md:60: the detection that opens a session is the    *)
(* one that is reported.  While a session suppresses motion, its detection    *)
(* is about to be forwarded, was taken by the API, or is in the outbox's      *)
(* care, unless the append to the file failed.                                *)
SuppressedIsReported ==
  \A m \in Debounced : sessions[m] # 0 /\ m \notin muted =>
    \/ m \in events
    \/ opened[m] = arrived /\ ingest # "idle"
    \/ opened[m] \in acknowledged \cup enqueued

=============================================================================
