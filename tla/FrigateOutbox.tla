---------------------------- MODULE FrigateOutbox ----------------------------
(***************************************************************************)
(* The Frigate bridge (src/main.ts) and its outbox file (src/outbox.ts).   *)
(* MQTT messages are handled one at a time: a detection is forwarded, and  *)
(* appended to the file when that fails.  Independently, on a timer and on *)
(* every MQTT connection, the outbox is flushed: the file is read, each    *)
(* entry is sent again, and the file is replaced by what remains.  Every   *)
(* await lets the other activity run.                                      *)
(*                                                                         *)
(* Detections are numbered in the order in which they arrive.              *)
(***************************************************************************)
EXTENDS Naturals, Sequences

CONSTANTS
  Detections,     \* bound: how many detections arrive
  MaxAttempts,    \* MAX_ATTEMPTS
  Failures,       \* TRUE when the file system may fail
  Crashes         \* TRUE when the process may be restarted at any step

ASSUME CountAssumption == Detections \in Nat /\ MaxAttempts \in Nat \ {0}
ASSUME SwitchAssumption == Failures \in BOOLEAN /\ Crashes \in BOOLEAN

VARIABLES
  arrived, ingest,        \* detections so far; what happens to the last one
  file,                   \* the lines of the outbox file
  flush, todo, remaining, \* Outbox.flush: its step, entries left, entries kept
  acknowledged,           \* history: detections the API answered with success
  enqueued,               \* history: detections written to the file
  overtaken,              \* history: those written while a flush held a copy
  dropped,                \* history: those the flush gave up
  failed                  \* history: failed sends of each by a flush, capped

ingestVars == <<arrived, ingest>>
flushVars == <<flush, todo, remaining>>
historyVars == <<acknowledged, enqueued, overtaken, dropped, failed>>
vars == <<ingestVars, file, flushVars, historyVars>>

Ids == 1 .. Detections
Entries == [id : Ids, attempts : 0 .. MaxAttempts]
IdsOf(s) == {s[k].id : k \in DOMAIN s}

Init ==
  /\ arrived = 0 /\ ingest = "idle"
  /\ file = <<>>
  /\ flush = "idle" /\ todo = <<>> /\ remaining = <<>>
  /\ acknowledged = {} /\ enqueued = {} /\ overtaken = {} /\ dropped = {}
  /\ failed = [i \in Ids |-> 0]

-----------------------------------------------------------------------------
(* processMqttMessage *)

Arrive ==
  /\ ingest = "idle" /\ arrived < Detections
  /\ arrived' = arrived + 1 /\ ingest' = "forward"
  /\ UNCHANGED <<file, flushVars, historyVars>>

Forwarded ==
  /\ ingest = "forward" /\ ingest' = "idle"
  /\ acknowledged' = acknowledged \cup {arrived}
  /\ UNCHANGED <<arrived, file, flushVars, enqueued, overtaken, dropped, failed>>

ForwardFails ==
  /\ ingest = "forward" /\ ingest' = "enqueue"
  /\ UNCHANGED <<arrived, file, flushVars, historyVars>>

Enqueue ==
  /\ ingest = "enqueue" /\ ingest' = "idle"
  /\ file' = Append(file, [id |-> arrived, attempts |-> 0])
  /\ enqueued' = enqueued \cup {arrived}
  /\ overtaken' = overtaken \cup (IF flush = "send" THEN {arrived} ELSE {})
  /\ UNCHANGED <<arrived, flushVars, acknowledged, dropped, failed>>

(* The rejected promise is logged by the handler of the message chain. *)
EnqueueFails ==
  /\ Failures
  /\ ingest = "enqueue" /\ ingest' = "idle"
  /\ UNCHANGED <<arrived, file, flushVars, historyVars>>

-----------------------------------------------------------------------------
(* Outbox.flush; the flushing flag is set from StartFlush to EndFlush *)

StartFlush ==
  /\ flush = "idle" /\ flush' = "read"
  /\ UNCHANGED <<ingestVars, file, todo, remaining, historyVars>>

EndFlush == flush' = "idle" /\ todo' = <<>> /\ remaining' = <<>>

ReadAll ==
  /\ flush = "read"
  /\ \/ file = <<>> /\ EndFlush
     \/ file # <<>> /\ flush' = "send" /\ todo' = file /\ remaining' = <<>>
  /\ UNCHANGED <<ingestVars, file, historyVars>>

(* The next entry to send, and the retries it is allowed. *)
Sending == flush = "send" /\ todo # <<>>

(* A faulty variant of Exhausted: one attempt too few. *)
ExhaustedEarly == Head(todo).attempts + 1 >= MaxAttempts

Exhausted == Head(todo).attempts >= MaxAttempts

DropEntry ==
  /\ Sending /\ Exhausted
  /\ todo' = Tail(todo)
  /\ dropped' = dropped \cup {Head(todo).id}
  /\ UNCHANGED <<ingestVars, file, flush, remaining, acknowledged, enqueued, overtaken,
                 failed>>

SendAccepted ==
  /\ Sending /\ ~Exhausted
  /\ todo' = Tail(todo)
  /\ acknowledged' = acknowledged \cup {Head(todo).id}
  /\ UNCHANGED <<ingestVars, file, flush, remaining, enqueued, overtaken, dropped, failed>>

(* A faulty variant of Retried: the attempt is not counted. *)
RetriedUncounted(entry) == entry

Retried(entry) == [entry EXCEPT !.attempts = @ + 1]

(* A faulty variant of SendFails: what remains is kept in reverse order. *)
SendFailsInFront ==
  /\ Sending /\ ~Exhausted
  /\ todo' = Tail(todo)
  /\ remaining' = <<Retried(Head(todo))>> \o remaining
  /\ failed' = [failed EXCEPT ![Head(todo).id] = IF @ < MaxAttempts THEN @ + 1 ELSE @]
  /\ UNCHANGED <<ingestVars, file, flush, acknowledged, enqueued, overtaken, dropped>>

SendFails ==
  /\ Sending /\ ~Exhausted
  /\ todo' = Tail(todo)
  /\ remaining' = Append(remaining, Retried(Head(todo)))
  /\ failed' = [failed EXCEPT ![Head(todo).id] = IF @ < MaxAttempts THEN @ + 1 ELSE @]
  /\ UNCHANGED <<ingestVars, file, flush, acknowledged, enqueued, overtaken, dropped>>

(* A faulty variant of WriteAll: the entries left are not written back. *)
WriteNothing ==
  /\ flush = "send" /\ todo = <<>>
  /\ file' = <<>>
  /\ EndFlush
  /\ UNCHANGED <<ingestVars, historyVars>>

(* writeAll: a temporary file, then a rename over the outbox file. *)
WriteAll ==
  /\ flush = "send" /\ todo = <<>>
  /\ file' = remaining
  /\ EndFlush
  /\ UNCHANGED <<ingestVars, historyVars>>

(* The file cannot be read or replaced: logged, and the flush is over. *)
FlushFails ==
  /\ Failures
  /\ flush = "read" \/ (flush = "send" /\ todo = <<>>)
  /\ EndFlush
  /\ UNCHANGED <<ingestVars, file, historyVars>>

FlushStep ==
  ReadAll \/ DropEntry \/ SendAccepted \/ SendFails \/ WriteAll \/ FlushFails

(* Only the file survives a restart. *)
Crash ==
  /\ Crashes
  /\ ingest' = "idle" /\ EndFlush
  /\ UNCHANGED <<arrived, file, historyVars>>

Next ==
  \/ Arrive \/ Forwarded \/ ForwardFails \/ Enqueue \/ EnqueueFails
  \/ StartFlush \/ FlushStep
  \/ Crash

Spec == Init /\ [][Next]_vars

(* The interval timer keeps firing and every awaited call returns; a file     *)
(* system that fails does not fail always, and restarts come to an end.       *)
Fairness ==
  /\ WF_vars(StartFlush \/ FlushStep)
  /\ SF_vars(ReadAll) /\ SF_vars(WriteAll)
  /\ <>[][~Crash]_vars

FairSpec == Spec /\ Fairness

-----------------------------------------------------------------------------
(* Properties *)

(* Every variable ranges over the values the code can give it; an entry is *)
(* never counted past MAX_ATTEMPTS.                                        *)
TypeOK ==
  /\ arrived \in 0 .. Detections /\ ingest \in {"idle", "forward", "enqueue"}
  /\ ingest # "idle" => arrived \in Ids
  /\ file \in Seq(Entries) /\ todo \in Seq(Entries) /\ remaining \in Seq(Entries)
  /\ flush \in {"idle", "read", "send"}
  /\ acknowledged \in SUBSET Ids /\ enqueued \in SUBSET Ids
  /\ overtaken \in SUBSET Ids /\ dropped \in SUBSET Ids
  /\ failed \in [Ids -> 0 .. MaxAttempts]

(* Outbox.flush and processMqttMessage: the file holds its entries in order  *)
(* of arrival and each one once, through any interleaving of appends,        *)
(* rewrites, failed rewrites and restarts.                                   *)
QueueInOrder == \A j, k \in DOMAIN file : j < k => file[j].id < file[k].id

(* A detection that reached the file stays there until the API acknowledged  *)
(* it or its retries ran out, whatever fails or restarts in the middle of a  *)
(* flush; only one written while a flush holds a copy of the file may go.    *)
Accounted == enqueued \subseteq IdsOf(file) \cup acknowledged \cup dropped \cup overtaken

(* MAX_ATTEMPTS: a detection is given up only after that many failed sends. *)
DroppedAfterRetries == \A i \in dropped : failed[i] = MaxAttempts

(* A queued detection leaves the file: acknowledged, or its retries ran out. *)
QueueDrains == \A i \in Ids : i \in IdsOf(file) ~> i \notin IdsOf(file)

(* README.md:59 the outbox is the retry queue "quando a API esta offline": a *)
(* detection in it is not lost before it was retried.                        *)
QueuedIsKept == enqueued \subseteq IdsOf(file) \cup acknowledged \cup dropped

=============================================================================
