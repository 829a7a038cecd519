---------------------------- MODULE DoorContact ----------------------------
(***************************************************************************)
(* main/door_contact.cpp and the debounce engine it drives.  The va_door   *)
(* task polls the reed under the door mutex, then emits the events of that *)
(* poll outside it, one blocking POST to Identity after the other; until   *)
(* the last one returns, nobody reads the reed.                            *)
(*                                                                         *)
(* Time is abstract: a debounce window or a held-open grace that is        *)
(* running may elapse at any poll.                                         *)
(***************************************************************************)
EXTENDS Sequences

VARIABLES
  door,       \* the door itself: "open" or "closed"
  contact,    \* g_config.enabled and g_ready: the driver reads the reed
  stable,     \* DoorContactEngine::stable_
  pending,    \* the reading its debounce window is running for, or "none"
  held,       \* held_open: "off", "armed" or "fired"
  events,     \* DoorContactStep handed to Emit, what is left of it
  watcher     \* where va_door is

contactVars == <<contact, stable, pending, held, events, watcher>>
engineVars == <<stable, pending, held>>

Readings == {"open", "closed"}

(* What one poll can emit, and what is left of it (MergeSteps). *)
DoorContactStep ==
  {<<>>, <<"opened">>, <<"closed">>, <<"held_open">>, <<"held_open", "closed">>}

(* A faulty variant of DoorLocked: Emit runs inside the mutex. *)
DoorLockedWhileEmitting == watcher # "poll"

(* The door mutex, held from the poll until /health has been published. *)
DoorLocked == watcher = "publish"

DoorIsOpen == contact /\ stable = "open"

ContactInit ==
  /\ door \in Readings
  /\ contact \in BOOLEAN
  /\ stable = IF contact THEN door ELSE "unknown"
  /\ held = IF DoorIsOpen THEN "armed" ELSE "off"
  /\ pending = "none" /\ events = <<>> /\ watcher = "poll"

DoorMoves ==
  /\ door' \in Readings \ {door}
  /\ UNCHANGED contactVars

(* ApplyConfig when a setting moved: a fresh engine, seeded in silence. *)
ConfigureContact ==
  /\ ~DoorLocked
  /\ contact' \in BOOLEAN
  /\ stable' = IF contact' THEN door ELSE "unknown"
  /\ held' = IF contact' /\ door = "open" THEN "armed" ELSE "off"
  /\ pending' = "none"
  /\ UNCHANGED <<door, events, watcher>>

(* ApplyRaw and Tick of one poll.  The held-open grace is looked at before  *)
(* the commit, by ApplyRaw, so held_open may precede closed in one step.    *)
HeldFires == held = "armed" /\ stable = "open"

(* A faulty variant of Emitted: the grace is looked at after the commit. *)
EmittedSwapped(heldDue, committed) ==
  LET last == IF heldDue THEN <<"held_open">> ELSE <<>>
  IN IF committed
     THEN <<IF door = "open" THEN "opened" ELSE "closed">> \o last ELSE last

Emitted(heldDue, committed) ==
  LET first == IF heldDue THEN <<"held_open">> ELSE <<>>
  IN IF committed
     THEN Append(first, IF door = "open" THEN "opened" ELSE "closed") ELSE first

Settle(heldDue) ==
  /\ pending' = IF door = stable /\ pending = "none" THEN "none" ELSE door
  /\ UNCHANGED stable
  /\ held' = IF heldDue THEN "fired" ELSE held
  /\ events' = Emitted(heldDue, FALSE)

Commit(heldDue) ==
  /\ pending = door
  /\ pending' = "none"
  /\ stable' = door
  /\ held' = IF stable = door THEN (IF heldDue THEN "fired" ELSE held)
             ELSE IF door = "open" THEN "armed" ELSE "off"
  /\ events' = Emitted(heldDue, stable # door)

Poll ==
  /\ watcher = "poll"
  /\ contact
  /\ \E heldDue \in {FALSE, HeldFires} : Settle(heldDue) \/ Commit(heldDue)
  /\ watcher' = "publish"
  /\ UNCHANGED <<door, contact>>

PublishHealth ==
  /\ watcher = "publish"
  /\ watcher' = IF events = <<>> THEN "poll" ELSE "emit"
  /\ UNCHANGED <<door, contact, engineVars, events>>

(* Emit: the local effects of the first event, then its POST. *)
DropEvents == events' = <<>> /\ watcher' = "poll"

EmitRefused ==
  /\ watcher = "emit"
  /\ DropEvents
  /\ UNCHANGED <<door, contact, engineVars>>

EmitStep(from, to) ==
  /\ watcher = from /\ watcher' = to
  /\ UNCHANGED <<door, contact, engineVars, events>>

Posted ==
  /\ watcher = "post"
  /\ events' = Tail(events)
  /\ watcher' = IF Len(events) = 1 THEN "poll" ELSE "cue"
  /\ UNCHANGED <<door, contact, engineVars>>

PostUnauthorized ==
  /\ watcher = "post"
  /\ DropEvents
  /\ UNCHANGED <<door, contact, engineVars>>

ContactTypeOK ==
  /\ door \in Readings
  /\ contact \in BOOLEAN
  /\ stable \in Readings \cup {"unknown"}
  /\ pending \in Readings \cup {"none"}
  /\ held \in {"off", "armed", "fired"}
  /\ events \in DoorContactStep
  /\ watcher \in {"poll", "publish", "emit", "cue", "hook", "post"}
  /\ watcher \in {"emit", "cue", "hook", "post"} => events # <<>>
  /\ watcher = "poll" => events = <<>>

=============================================================================
