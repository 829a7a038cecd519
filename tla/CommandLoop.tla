---------------------------- MODULE CommandLoop ----------------------------
(***************************************************************************)
(* The remote commands of the ESP32 reader: CommandLoop of                 *)
(* main/sync_task.cpp polls them, executes a batch one by one, answers     *)
(* each, and restarts after a batch that asks for it.  UPDATE writes the   *)
(* other application slot (main/ota_update.cpp); the bootloader starts it, *)
(* and goes back unless app_main confirms it.  Identity is modelled by     *)
(* what it knows of each command.                                          *)
(***************************************************************************)
EXTENDS Naturals, SequencesExt

CONSTANT Commands      \* bound: the commands that are ever ordered

ASSUME CommandsAssumption == IsFiniteSet(Commands)

VARIABLES
  configured,   \* app::State: config_.configured
  orders,       \* Identity: each command's action and how it was answered
  loop,         \* where va_commands is
  batch,        \* commands that were fetched and not answered yet
  result,       \* the answer that is being sent
  rebootAfterAck,
  runs, spare,  \* the image that runs, and the one in the other slot
  next,         \* the slot the bootloader starts next
  trial,        \* ESP_OTA_IMG_PENDING_VERIFY: the running image is unconfirmed
  believed,     \* history: the version of the last UPDATE answered as done
  excused,      \* history: it was rolled back, or another UPDATE got in its way
  clobbered     \* history: an UPDATE erased the slot that was to start next

identityVars == <<orders, believed, excused>>
loopVars == <<loop, batch, result, rebootAfterAck>>
imageVars == <<runs, spare, next, trial, clobbered>>
vars == <<configured, identityVars, loopVars, imageVars>>

Versions == {"v1", "v2"}
Images == Versions \cup {"wrong", "broken"}   \* wrong: whole, of another hash
Actions == {"unlock", "reboot", "sync", "reset", "unknown", "v1", "v2", "empty"}
Updates == Versions \cup {"empty"}            \* UPDATE, by what it orders
Replies == {"pending", "done", "failed"}

Action(c) == orders[c].action
Pending == {c \in Commands : orders[c].reply = "pending"}

Init ==
  /\ configured = TRUE
  /\ orders = [c \in Commands |-> [action |-> "unknown", reply |-> "none"]]
  /\ loop = "wait" /\ batch = <<>> /\ result = "none"
  /\ rebootAfterAck = FALSE
  /\ runs = "v1" /\ spare \in {"v2", "broken"} /\ next = "running" /\ trial = FALSE
  /\ believed = "none" /\ excused = FALSE /\ clobbered = FALSE

-----------------------------------------------------------------------------
(* Identity and the technician *)

Issue(c) ==
  /\ orders[c].reply = "none"
  /\ \E a \in Actions : orders' = [orders EXCEPT ![c] = [action |-> a, reply |-> "pending"]]
  /\ UNCHANGED <<configured, believed, excused, loopVars, imageVars>>

Claim ==
  /\ ~configured /\ configured' = TRUE
  /\ UNCHANGED <<identityVars, loopVars, imageVars>>

(* EnterSetupMode, here or on another task; its save may fail. *)
EnterSetupMode == configured' \in {FALSE, configured}

Drop == EnterSetupMode /\ UNCHANGED <<identityVars, loopVars, imageVars>>

-----------------------------------------------------------------------------
(* CommandLoop *)

(* A poll that fails waits for the next; one that is refused is a Drop. *)
Fetch ==
  /\ loop = "wait" /\ configured /\ Pending # {}
  /\ batch' \in SetToSeqs(Pending)
  /\ loop' = "run"
  /\ UNCHANGED <<configured, identityVars, result, rebootAfterAck, imageVars>>

Answers(r) == result' = r /\ loop' = "ack"

(* Faulty variant: each command decides anew whether the reader restarts. *)
RestartsIfLast(yes) == rebootAfterAck' = yes

Restarts(yes) == rebootAfterAck' = (rebootAfterAck \/ yes)

(* Faulty variant: the reader restarts before it has answered. *)
RebootsFirst == Restarts(TRUE) /\ loop' = "restart" /\ UNCHANGED result

Reboots == Restarts(TRUE) /\ Answers("done")

(* relay::Pulse may fail; SYNC may lose the key; a RESET is answered first. *)
Execute ==
  /\ loop = "run" /\ batch # <<>>
  /\ LET a == Action(Head(batch))
     IN \/ a = "reboot" /\ Reboots /\ UNCHANGED configured
        \/ /\ Restarts(FALSE)
           /\ \/ a = "unlock" /\ \E r \in {"done", "failed"} : Answers(r)
              \/ a \in {"sync", "reset"} /\ Answers("done")
              \/ a = "unknown" /\ Answers("failed")
           /\ IF a = "sync" THEN EnterSetupMode ELSE UNCHANGED configured
  /\ UNCHANGED <<identityVars, batch, imageVars>>

Keeps == UNCHANGED <<spare, next, excused, clobbered>>

(* ota::Apply up to esp_ota_begin, which erases the other slot and refuses   *)
(* while the image is on trial.  The slot may be the one to start next;      *)
(* whether the library then forgets that choice depends on its version.      *)
BeginUpdate ==
  /\ loop = "run" /\ batch # <<>> /\ Action(Head(batch)) \in Updates
  /\ LET v == Action(Head(batch))
     IN \/ v # runs /\ Answers("failed") /\ Keeps
        \/ v = runs /\ Answers("done") /\ Keeps
        \/ /\ v \in Versions \ {runs} /\ ~trial
           /\ spare' = "broken" /\ next' \in {next, "running"}
           /\ loop' = "download" /\ UNCHANGED result
           /\ excused' = (excused \/ next = "spare")
           /\ clobbered' = (clobbered \/ next = "spare")
  /\ Restarts(FALSE)
  /\ UNCHANGED <<configured, orders, believed, batch, runs, trial>>

(* Faulty variant: the slot is switched before the hash is compared. *)
DownloadUnverified ==
  /\ loop = "download"
  /\ \E image \in {Action(Head(batch)), "wrong", "broken"} :
       /\ spare' = image /\ next' = "spare" /\ Restarts(TRUE)
       /\ Answers(IF image = Action(Head(batch)) THEN "done" ELSE "failed")
  /\ UNCHANGED <<configured, identityVars, batch, runs, trial, clobbered>>

(* The image is read, written and hashed; only one with the ordered hash is *)
(* finished and started next.                                               *)
Download ==
  /\ loop = "download"
  /\ \/ /\ spare' \in {Action(Head(batch)), "wrong", "broken"}
        /\ UNCHANGED next /\ Restarts(FALSE) /\ Answers("failed")
     \/ /\ spare' = Action(Head(batch)) /\ next' = "spare"
        /\ Restarts(TRUE) /\ Answers("done")
  /\ UNCHANGED <<configured, identityVars, batch, runs, trial, clobbered>>

(* AckCommand, with the copy of the config the poll was made with.  Identity *)
(* takes the answer, or it is lost; the loop goes on either way.             *)
Answered ==
  /\ batch' = Tail(batch)
  /\ loop' = "run" /\ result' = "none"
  /\ IF Action(Head(batch)) = "reset" THEN EnterSetupMode ELSE UNCHANGED configured
  /\ UNCHANGED <<rebootAfterAck, imageVars>>

AckCommand(c) ==
  /\ loop = "ack" /\ c = Head(batch)
  /\ orders' = [orders EXCEPT ![c].reply = result]
  /\ IF result = "done" /\ Action(c) \in Versions
     THEN believed' = Action(c) /\ excused' = (next = "spare" /\ Action(c) = runs)
     ELSE UNCHANGED <<believed, excused>>
  /\ Answered

(* Faulty variant: a command whose answer was lost is tried again at once. *)
AckLostRetried ==
  /\ loop = "ack"
  /\ \/ UNCHANGED orders
     \/ orders' = [orders EXCEPT ![Head(batch)].reply = result]
  /\ loop' = "run" /\ result' = "none"
  /\ UNCHANGED <<configured, believed, excused, batch, rebootAfterAck, imageVars>>

AckLost ==
  /\ loop = "ack"
  /\ UNCHANGED identityVars
  /\ Answered

EndBatch ==
  /\ loop = "run" /\ batch = <<>>
  /\ loop' = IF rebootAfterAck THEN "restart" ELSE "wait"
  /\ UNCHANGED <<configured, identityVars, batch, result, rebootAfterAck, imageVars>>

-----------------------------------------------------------------------------
(* A restart *)

Swapped == runs' = spare /\ spare' = runs

(* The bootloader starts a whole image, and leaves one on trial that was    *)
(* not confirmed.                                                           *)
Boot ==
  /\ loop' = "wait" /\ batch' = <<>> /\ result' = "none"
  /\ rebootAfterAck' = FALSE
  /\ next' = "running"
  /\ IF next = "spare" /\ spare # "broken"
     THEN Swapped /\ trial' = TRUE /\ UNCHANGED excused
     ELSE /\ IF trial THEN Swapped ELSE UNCHANGED <<runs, spare>>
          /\ trial' = FALSE /\ excused' = (excused \/ trial)
  /\ UNCHANGED <<configured, orders, believed, clobbered>>

Restart == loop = "restart" /\ Boot
PowerCut == loop # "restart" /\ Boot

MarkFirmwareValid ==
  /\ trial /\ trial' = FALSE
  /\ UNCHANGED <<configured, identityVars, loopVars, runs, spare, next, clobbered>>

Next ==
  \/ \E c \in Commands : Issue(c) \/ AckCommand(c)
  \/ Claim \/ Drop
  \/ Fetch \/ Execute \/ BeginUpdate \/ Download \/ AckLost \/ EndBatch
  \/ Restart \/ PowerCut \/ MarkFirmwareValid

Spec == Init /\ [][Next]_vars

(* va_commands is scheduled, polls and downloads end, Wi-Fi and Identity    *)
(* come back, and an answer that is sent again and again is taken at last.  *)
FairSpec ==
  /\ Spec
  /\ WF_vars(Fetch) /\ WF_vars(Execute) /\ WF_vars(BeginUpdate) /\ WF_vars(Download)
  /\ WF_vars(EndBatch) /\ WF_vars(Restart)
  /\ WF_vars(AckLost \/ \E c \in Commands : AckCommand(c))
  /\ \A c \in Commands : SF_vars(AckCommand(c))

-----------------------------------------------------------------------------
(* Type correctness, and where the fields of va_commands agree: an answer    *)
(* exists exactly while it is being sent, and only a poll leaves a batch.    *)
TypeOK ==
  /\ configured \in BOOLEAN /\ trial \in BOOLEAN /\ excused \in BOOLEAN
  /\ orders \in [Commands -> [action : Actions, reply : Replies \cup {"none"}]]
  /\ loop \in {"wait", "run", "download", "ack", "restart"}
  /\ batch \in Seq(Commands)
  /\ loop \in {"download", "ack"} => batch # <<>>
  /\ loop = "wait" => batch = <<>>
  /\ result \in {"none", "done", "failed"} /\ (loop = "ack" <=> result # "none")
  /\ rebootAfterAck \in BOOLEAN /\ (loop = "wait" => ~rebootAfterAck)
  /\ runs \in Images /\ spare \in Images /\ next \in {"running", "spare"}
  /\ believed \in Versions \cup {"none"} /\ clobbered \in BOOLEAN

(* Whatever was lost on the way, no command whose answer Identity took is    *)
(* executed again: only an unanswered one is ever in the batch, once.        *)
NotRunOnceDone ==
  /\ \A i \in DOMAIN batch : orders[batch[i]].reply = "pending"
  /\ \A i, j \in DOMAIN batch : batch[i] = batch[j] => i = j

(* Only an image with the hash that was ordered is ever started, through    *)
(* failed downloads, repeated orders, restarts and rollbacks (README.md:636: *)
(* "Aborts without changing the boot partition on SHA-256 mismatch"), unless *)
(* an UPDATE was begun over the slot that was already chosen.                *)
OrderedImagesOnly ==
  ~clobbered =>
    runs \in {"v1"} \cup {Action(c) : c \in {d \in Commands : Action(d) \in Versions}}

(* The same without the exemption: refuted by two UPDATEs in one batch.      *)
MismatchNeverStarts ==
  runs \in {"v1"} \cup {Action(c) : c \in {d \in Commands : Action(d) \in Versions}}

(* When Identity has been told that an update was done and no other order is *)
(* open, that version is the one running (ExecuteCommand: "downloads into    *)
(* the inactive OTA slot, verifies SHA-256, acks Identity, then reboots"),   *)
(* unless it was rolled back or another UPDATE got between it and its start. *)
DoneUpdateRuns ==
  (loop = "wait" /\ believed # "none" /\ ~excused /\ \A c \in Pending : Action(c) \notin Versions)
    => runs = believed

(* Every order is answered at last, unless the reader leaves the gate or the *)
(* power fails for ever: no batch, failed update or restart loses one.       *)
CommandsAnswered ==
  \/ []<><<PowerCut>>_vars
  \/ \A c \in Commands :
       (orders[c].reply = "pending") ~> (orders[c].reply # "pending" \/ ~configured)

(* The reader implements RemoteOrder: a command is taken while it is in the  *)
(* batch, carried out from its execution until its answer is sent or lost,   *)
(* and whatever is lost, downloaded or restarted in between, one that        *)
(* Identity was told of is never in a batch again (sync_task.cpp:225-296).   *)
Life(c) ==
  IF c \in ToSet(batch)
  THEN IF loop = "ack" /\ c = Head(batch) THEN "carried" ELSE "taken"
  ELSE CASE orders[c].reply = "none" -> "none"
         [] orders[c].reply = "pending" -> "ordered"
         [] OTHER -> "answered"

Told(c) == IF orders[c].reply \in {"done", "failed"} THEN orders[c].reply ELSE "none"

Remote ==
  INSTANCE RemoteOrder WITH life <- [c \in Commands |-> Life(c)], outcome <- result,
                            told <- [c \in Commands |-> Told(c)]

ImplementsRemoteOrder == Remote!Spec

=============================================================================
