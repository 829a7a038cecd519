--------------------------- MODULE OfflinePassage ---------------------------
(***************************************************************************)
(* Passage decision of the ESP32 reader while Identity may be unreachable: *)
(* the tasks that run scan_service::Execute, the consumed-intent (nonce)   *)
(* store and the outbox they share with the va_policy task, the two        *)
(* LittleFS documents behind them, the flush to Identity, and power cuts.  *)
(*                                                                         *)
(* An intent stands for the QR code that carries it.  An outbox event is   *)
(* named by its intent, which is how Identity deduplicates flushed rows.   *)
(* The policy is fresh and the clock trusted: leaving either state makes   *)
(* TryContingency refuse, which every scan may do here anyway.  A run      *)
(* lasts less than MemoryNonceStore::kRetentionSeconds, so nothing is      *)
(* pruned.                                                                 *)
(***************************************************************************)
CONSTANTS
  Workers,    \* tasks that run scan_service::Execute: httpd and va_reader
  Intents,    \* intents of the tickets presented at the door
  NoIntent,   \* no scan in this slot
  PowerCuts   \* TRUE when the power may fail at any step

ASSUME IntentAssumption == NoIntent \notin Intents
ASSUME PowerAssumption == PowerCuts \in BOOLEAN

VARIABLES
  configured, reachable,    \* app::State: config_.configured, identity_reachable_
  debounce,                 \* the scan that g_debounce still suppresses
  pc, scan,                 \* where each worker is, and the intent it handles
  nonce, nonceDoc,          \* consumed intents: memory, consumed-intents.json
  outbox, outboxDoc,        \* pending events: memory, outbox document
  flush, batch,             \* where va_policy is, and the events it posted
  known,                    \* intents Identity has recorded
  openedBy,                 \* history: the tasks an intent opened it for, offline
  stored,                   \* history: intents that a saved document has held
  nonceLost                 \* history: intents forgotten with a missing document

stateVars == <<configured, reachable>>
nonceVars == <<nonce, nonceDoc>>
outboxVars == <<outbox, outboxDoc>>
syncVars == <<flush, batch>>
historyVars == <<openedBy, stored, nonceLost>>
vars == <<stateVars, debounce, pc, scan, nonceVars, outboxVars, syncVars, known,
          historyVars>>

Steps == {"idle", "redeem", "online", "contingency", "verify", "mark",
          "replaceNonce", "enqueue", "replaceOutbox", "offline"}
FlushSteps == {"wait", "policy", "snapshot", "post", "clear", "replaceCleared"}

(* A stored document.  WriteFileAtomic removes the old one before it renames *)
(* the temporary file; a missing document loads as an empty one.             *)
Gone == [there |-> FALSE, body |-> {}]
Saved(S) == [there |-> TRUE, body |-> S]
Documents == [there : BOOLEAN, body : SUBSET Intents]

(* std::mutex of each store: held while its document is being replaced. *)
NonceLocked == \E w \in Workers : pc[w] = "replaceNonce"
OutboxLocked == flush = "replaceCleared" \/ \E w \in Workers : pc[w] = "replaceOutbox"

Goto(w, step) == pc' = [pc EXCEPT ![w] = step] /\ UNCHANGED scan
Finish(w) == /\ pc' = [pc EXCEPT ![w] = "idle"]
             /\ scan' = [scan EXCEPT ![w] = NoIntent]

(* The appliance drops its credentials; a failed save leaves it as it was. *)
EnterSetupMode ==
  \/ configured /\ configured' = FALSE /\ reachable' = FALSE
  \/ UNCHANGED stateVars

Init ==
  /\ configured = TRUE /\ reachable = FALSE
  /\ debounce = NoIntent
  /\ pc = [w \in Workers |-> "idle"] /\ scan = [w \in Workers |-> NoIntent]
  /\ nonce = {} /\ nonceDoc = Gone
  /\ outbox = {} /\ outboxDoc = Gone
  /\ flush = "wait" /\ batch = {}
  /\ known = {}
  /\ openedBy = [i \in Intents |-> {}] /\ stored = {} /\ nonceLost = {}

-----------------------------------------------------------------------------
(* Faulty variants of the actions below, which the properties must tell from *)
(* the code                                                                  *)

(* Verify does not ask IsConsumed; or leaves MarkConsumed for later. *)
VerifyUnchecked(w) ==
  /\ pc[w] = "verify" /\ ~NonceLocked
  /\ Goto(w, "mark") \/ Finish(w)
  /\ UNCHANGED <<stateVars, debounce, nonceVars, outboxVars, syncVars, known, historyVars>>

VerifyUnmarked(w) ==
  /\ pc[w] = "verify" /\ ~NonceLocked
  /\ \/ scan[w] \notin nonce /\ Goto(w, "enqueue")
     \/ Finish(w)
  /\ UNCHANGED <<stateVars, debounce, nonceVars, outboxVars, syncVars, known, historyVars>>

(* A failed write of the consumed intents is only logged; or is retried. *)
MarkConsumedAnyway(w) ==
  /\ pc[w] = "mark" /\ ~NonceLocked
  /\ nonce' = nonce \cup {scan[w]}
  /\ \/ nonceDoc' = Gone /\ Goto(w, "replaceNonce")
     \/ UNCHANGED nonceDoc /\ Goto(w, "enqueue")
  /\ UNCHANGED <<stateVars, debounce, outboxVars, syncVars, known, historyVars>>

ReplaceNonceRetried(w) ==
  /\ pc[w] = "replaceNonce"
  /\ \/ nonceDoc' = Saved(nonce) /\ stored' = stored \cup nonce /\ Goto(w, "enqueue")
     \/ UNCHANGED <<nonceDoc, stored>> /\ Goto(w, "mark")
  /\ UNCHANGED <<stateVars, debounce, nonce, outboxVars, syncVars, known,
                 openedBy, nonceLost>>

(* Nothing is flushed before a policy sync succeeded. *)
PendingWhenReachable ==
  /\ flush = "snapshot" /\ ~OutboxLocked
  /\ batch' = outbox
  /\ flush' = IF outbox = {} \/ ~reachable THEN "wait" ELSE "post"
  /\ UNCHANGED <<stateVars, debounce, pc, scan, nonceVars, outboxVars, known, historyVars>>

(* The queue is cleared whether or not the batch was answered. *)
FlushFailedCleared ==
  /\ flush = "post"
  /\ known' \in {known, known \cup batch}
  /\ EnterSetupMode
  /\ flush' = "clear" /\ UNCHANGED batch
  /\ UNCHANGED <<debounce, pc, scan, nonceVars, outboxVars, historyVars>>

-----------------------------------------------------------------------------
(* A scan, from the HTTP endpoint or the serial reader *)

HandleScan(w, i) ==
  /\ pc[w] = "idle" /\ configured
  /\ debounce # i
  /\ debounce' = i
  /\ pc' = [pc EXCEPT ![w] = "redeem"]
  /\ scan' = [scan EXCEPT ![w] = i]
  /\ UNCHANGED <<stateVars, nonceVars, outboxVars, syncVars, known, historyVars>>

(* debounce_ms has passed since the last accepted scan. *)
DebounceElapses ==
  /\ debounce # NoIntent /\ debounce' = NoIntent
  /\ UNCHANGED <<stateVars, pc, scan, nonceVars, outboxVars, syncVars, known, historyVars>>

(* Identity redeems the intent; only AUTHORIZED opens the door.  A timeout or *)
(* a 5xx may hide a redeem that took place.                                   *)
RedeemAccepted(w) ==
  /\ pc[w] = "redeem"
  /\ known' = known \cup {scan[w]}
  /\ Goto(w, "online") \/ Finish(w)
  /\ UNCHANGED <<stateVars, debounce, nonceVars, outboxVars, syncVars, historyVars>>

RedeemRefused(w) ==
  /\ pc[w] = "redeem"
  /\ Finish(w)
  /\ EnterSetupMode
  /\ UNCHANGED <<debounce, nonceVars, outboxVars, syncVars, known, historyVars>>

RedeemUnavailable(w) ==
  /\ pc[w] = "redeem"
  /\ known' \in {known, known \cup {scan[w]}}
  /\ Goto(w, "contingency")
  /\ UNCHANGED <<stateVars, debounce, nonceVars, outboxVars, syncVars, historyVars>>

(* operation_mode() must be CONTINGENCY, else the scan is blocked. *)
TryContingency(w) ==
  /\ pc[w] = "contingency"
  /\ IF configured /\ ~reachable THEN Goto(w, "verify") ELSE Finish(w)
  /\ UNCHANGED <<stateVars, debounce, nonceVars, outboxVars, syncVars, known, historyVars>>

(* Verify up to the expiry check.  The ticket may fail any check. *)
Verify(w) ==
  /\ pc[w] = "verify" /\ ~NonceLocked
  /\ \/ scan[w] \notin nonce /\ Goto(w, "mark")
     \/ Finish(w)
  /\ UNCHANGED <<stateVars, debounce, nonceVars, outboxVars, syncVars, known, historyVars>>

(* MarkConsumed: memory first, then the document; a failed write refuses. *)
MarkConsumed(w) ==
  /\ pc[w] = "mark" /\ ~NonceLocked
  /\ nonce' = nonce \cup {scan[w]}
  /\ \/ nonceDoc' = Gone /\ Goto(w, "replaceNonce")
     \/ UNCHANGED nonceDoc /\ Finish(w)
  /\ UNCHANGED <<stateVars, debounce, outboxVars, syncVars, known, historyVars>>

ReplaceNonce(w) ==
  /\ pc[w] = "replaceNonce"
  /\ \/ nonceDoc' = Saved(nonce) /\ stored' = stored \cup nonce /\ Goto(w, "enqueue")
     \/ UNCHANGED <<nonceDoc, stored>> /\ Finish(w)
  /\ UNCHANGED <<stateVars, debounce, nonce, outboxVars, syncVars, known,
                 openedBy, nonceLost>>

(* EnqueueOutbox: a failed write is only logged. *)
EnqueueOutbox(w) ==
  /\ pc[w] = "enqueue" /\ ~OutboxLocked
  /\ outbox' = outbox \cup {scan[w]}
  /\ \/ outboxDoc' = Gone /\ Goto(w, "replaceOutbox")
     \/ UNCHANGED outboxDoc /\ Goto(w, "offline")
  /\ UNCHANGED <<stateVars, debounce, nonceVars, syncVars, known, historyVars>>

ReplaceOutbox(w) ==
  /\ pc[w] = "replaceOutbox"
  /\ outboxDoc' \in {Saved(outbox), outboxDoc}
  /\ Goto(w, "offline")
  /\ UNCHANGED <<stateVars, debounce, nonceVars, outbox, syncVars, known, historyVars>>

(* The end of Execute: unlock webhook, relay pulse, RecordScan. *)
OpenOnline(w) ==
  /\ pc[w] = "online"
  /\ Finish(w)
  /\ UNCHANGED <<stateVars, debounce, nonceVars, outboxVars, syncVars, known, historyVars>>

OpenOffline(w) ==
  /\ pc[w] = "offline"
  /\ openedBy' = [openedBy EXCEPT ![scan[w]] = @ \cup {w}]
  /\ Finish(w)
  /\ UNCHANGED <<stateVars, debounce, nonceVars, outboxVars, syncVars, known, stored,
                 nonceLost>>

-----------------------------------------------------------------------------
(* The va_policy task: SyncPolicy, then FlushContingencyOutbox *)

StartSync ==
  /\ flush = "wait" /\ configured
  /\ flush' = "policy"
  /\ UNCHANGED <<stateVars, debounce, pc, scan, nonceVars, outboxVars, batch, known,
                 historyVars>>

(* What a policy fetch does to app::State: unauthorized, failed or synced. *)
PolicyFetched ==
  \/ EnterSetupMode
  \/ reachable' \in BOOLEAN /\ UNCHANGED configured

SyncPolicy ==
  /\ flush = "policy"
  /\ PolicyFetched
  /\ flush' = "snapshot"
  /\ UNCHANGED <<debounce, pc, scan, nonceVars, outboxVars, batch, known, historyVars>>

(* The SYNC command runs the same fetch on the va_commands task. *)
CommandSync ==
  /\ configured
  /\ PolicyFetched
  /\ UNCHANGED <<debounce, pc, scan, nonceVars, outboxVars, syncVars, known, historyVars>>

PendingOutboxEvents ==
  /\ flush = "snapshot" /\ ~OutboxLocked
  /\ batch' = outbox
  /\ flush' = IF outbox = {} THEN "wait" ELSE "post"
  /\ UNCHANGED <<stateVars, debounce, pc, scan, nonceVars, outboxVars, known, historyVars>>

EndFlush == flush' = "wait" /\ batch' = {}

(* Identity records the batch.  It counts as flushed what it did not know, *)
(* and the queue is cleared only when that count is positive.              *)
FlushDelivered ==
  /\ flush = "post"
  /\ known' = known \cup batch
  /\ IF batch \subseteq known THEN EndFlush ELSE flush' = "clear" /\ UNCHANGED batch
  /\ UNCHANGED <<stateVars, debounce, pc, scan, nonceVars, outboxVars, historyVars>>

(* No usable answer: the request or the reply was lost, or the key refused. *)
FlushFailed ==
  /\ flush = "post"
  /\ known' \in {known, known \cup batch}
  /\ EnterSetupMode
  /\ EndFlush
  /\ UNCHANGED <<debounce, pc, scan, nonceVars, outboxVars, historyVars>>

MarkOutboxFlushed ==
  /\ flush = "clear" /\ ~OutboxLocked
  /\ outbox' = {}
  /\ \/ outboxDoc' = Gone /\ flush' = "replaceCleared" /\ UNCHANGED batch
     \/ UNCHANGED outboxDoc /\ EndFlush
  /\ UNCHANGED <<stateVars, debounce, pc, scan, nonceVars, known, historyVars>>

ReplaceCleared ==
  /\ flush = "replaceCleared"
  /\ outboxDoc' \in {Saved(outbox), outboxDoc}
  /\ EndFlush
  /\ UNCHANGED <<stateVars, debounce, pc, scan, nonceVars, outbox, known, historyVars>>

-----------------------------------------------------------------------------
(* Provisioning, and the loss of everything that is not in flash *)

CompleteClaim ==
  /\ ~configured /\ configured' = TRUE
  /\ UNCHANGED <<reachable, debounce, pc, scan, nonceVars, outboxVars, syncVars, known,
                 historyVars>>

PowerCut ==
  /\ PowerCuts
  /\ reachable' = FALSE /\ debounce' = NoIntent
  /\ pc' = [w \in Workers |-> "idle"] /\ scan' = [w \in Workers |-> NoIntent]
  /\ nonce' = nonceDoc.body /\ outbox' = outboxDoc.body
  /\ flush' = "wait" /\ batch' = {}
  /\ nonceLost' = nonceLost \cup (IF nonceDoc.there THEN {} ELSE nonce)
  /\ UNCHANGED <<configured, nonceDoc, outboxDoc, known, openedBy, stored>>

WorkerStep(w) ==
  \/ RedeemAccepted(w) \/ RedeemRefused(w) \/ RedeemUnavailable(w)
  \/ TryContingency(w) \/ Verify(w) \/ MarkConsumed(w) \/ ReplaceNonce(w)
  \/ EnqueueOutbox(w) \/ ReplaceOutbox(w) \/ OpenOnline(w) \/ OpenOffline(w)

SyncStep ==
  \/ StartSync \/ SyncPolicy \/ PendingOutboxEvents
  \/ FlushDelivered \/ FlushFailed \/ MarkOutboxFlushed \/ ReplaceCleared

Next ==
  \/ \E w \in Workers, i \in Intents : HandleScan(w, i)
  \/ \E w \in Workers : WorkerStep(w)
  \/ DebounceElapses
  \/ SyncStep
  \/ CommandSync
  \/ CompleteClaim
  \/ PowerCut

Spec == Init /\ [][Next]_vars

(* Every task keeps running and every mutex is handed on (FreeRTOS queues   *)
(* its waiters); posts that keep being sent are answered now and then; the  *)
(* power does not fail for ever.                                            *)
Fairness ==
  /\ \A w \in Workers : SF_vars(WorkerStep(w))
  /\ SF_vars(SyncStep) /\ SF_vars(FlushDelivered)
  /\ <>[][~PowerCut]_vars

FairSpec == Spec /\ Fairness

-----------------------------------------------------------------------------
(* Properties *)

(* Every variable ranges over the values the code can give it, and a worker *)
(* handles an intent exactly while it is not idle.                          *)
TypeOK ==
  /\ configured \in BOOLEAN /\ reachable \in BOOLEAN
  /\ debounce \in Intents \cup {NoIntent}
  /\ pc \in [Workers -> Steps]
  /\ scan \in [Workers -> Intents \cup {NoIntent}]
  /\ \A w \in Workers : pc[w] # "idle" => scan[w] \in Intents
  /\ nonce \in SUBSET Intents /\ nonceDoc \in Documents
  /\ outbox \in SUBSET Intents /\ outboxDoc \in Documents
  /\ flush \in FlushSteps /\ batch \in SUBSET Intents
  /\ known \in SUBSET Intents
  /\ openedBy \in [Intents -> SUBSET Workers]
  /\ stored \in SUBSET Intents /\ nonceLost \in SUBSET Intents

(* The door opens offline only for an intent whose consumption was in flash: *)
(* whatever step the power fails at, a ticket that opened the door is still  *)
(* refused after the reboot, unless the consumed-intents document itself was *)
(* lost while WriteFileAtomic was replacing it.                              *)
OpenedStaysConsumed ==
  \A i \in Intents : openedBy[i] # {} =>
    /\ i \in stored
    /\ i \in nonceLost \/ (i \in nonce /\ (nonceDoc.there => i \in nonceDoc.body))

(* Past Verify's nonce check, on the way to the door. *)
Admitted == {"mark", "replaceNonce", "enqueue", "replaceOutbox", "offline"}
AdmittedWith(i) == {w \in Workers : pc[w] \in Admitted /\ scan[w] = i}

(* Verify asks and MarkConsumed notes in two critical sections, so scans of  *)
(* one ticket on two tasks may both be admitted.  With any number of tasks   *)
(* the appliance implements TicketUse: whoever asks after the first note is  *)
(* refused, through failed writes and power cuts, so a ticket opens the door *)
(* once for each scan that asked before it, and for no task twice.           *)
TicketState(i) ==
  IF i \in nonceLost
  THEN [state |-> "forgotten", admitted |-> {}, opened |-> {}]
  ELSE [state |-> IF i \in nonce THEN "consumed" ELSE "fresh",
        admitted |-> AdmittedWith(i), opened |-> openedBy[i]]

Ticket == INSTANCE TicketUse
  WITH Tasks <- Workers, ticket <- [i \in Intents |-> TicketState(i)]

ImplementsTicketUse == Ticket!Spec

(* No task is about to open the door with a ticket it opened it with before, *)
(* unless the ticket was forgotten with the document.                        *)
NoTaskOpensTwice ==
  \A w \in Workers :
    pc[w] \in Admitted /\ scan[w] \notin nonceLost => w \notin openedBy[scan[w]]

(* contingency.hpp:21 "so a ticket cannot be replayed while Identity is     *)
(* unreachable": no ticket ever opens the door offline for two tasks.       *)
NoOfflineReplay == \A i \in Intents : \A v, w \in openedBy[i] : v = w

(* FlushContingencyOutbox: a posted event leaves the queue only once Identity *)
(* has it, whatever answers were lost on the way; only a power cut may take   *)
(* it from memory before that.                                                *)
PostedThenRecorded ==
  [][PowerCut \/ \A i \in batch : i \in outbox /\ i \notin outbox' => i \in known]_vars

(* sync_task.cpp:81 clears the queue because every row in it was accepted or *)
(* is "already recorded server-side": no offline passage goes unrecorded.    *)
PassagesReachIdentity ==
  \A i \in Intents : openedBy[i] # {} => i \in known \cup outbox

(* A pending event is recorded, or leaves the queue, as long as the reader *)
(* keeps its credentials: no interleaving blocks the flush for good.       *)
PendingIsReported ==
  \A i \in Intents : i \in outbox ~> (i \in known \/ i \notin outbox \/ ~configured)

(* Every scan ends: the stores' mutexes never leave a task waiting forever. *)
ScanEnds == \A w \in Workers : pc[w] # "idle" ~> pc[w] = "idle"

=============================================================================
