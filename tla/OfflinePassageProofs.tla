------------------------ MODULE OfflinePassageProofs ------------------------
(***************************************************************************)
(* Proofs about OfflinePassage, for any number of intents, any number of   *)
(* scan tasks and power cuts at every step.                                *)
(***************************************************************************)
EXTENDS OfflinePassage, TLAPS

(* The steps a worker takes between the stored note and the door. *)
Marked == {"enqueue", "replaceOutbox", "offline"}

(* The document never holds an intent the memory lacks. *)
DocumentInMemory ==
  /\ nonceDoc.body \subseteq nonce
  /\ ~nonceDoc.there => nonceDoc.body = {}

(* A worker that passed MarkConsumed left its intent in both stores. *)
MarkedIsStored ==
  \A w \in Workers :
    /\ pc[w] = "replaceNonce" => scan[w] \in nonce
    /\ pc[w] \in Marked =>
         /\ scan[w] \in stored /\ scan[w] \in nonce
         /\ nonceDoc.there => scan[w] \in nonceDoc.body

IInv == TypeOK /\ DocumentInMemory /\ MarkedIsStored /\ OpenedStaysConsumed

(* Removing or replacing a document leaves a document. *)
LEMMA DocumentTypes ==
  /\ Gone \in Documents /\ Gone.there = FALSE /\ Gone.body = {}
  /\ \A S \in SUBSET Intents :
       Saved(S) \in Documents /\ Saved(S).there = TRUE /\ Saved(S).body = S
BY DEF Gone, Saved, Documents

(* Every variable keeps the type the code gives it, whatever the tasks do. *)
THEOREM TypeCorrect == Spec => []TypeOK
<1>1. Init => TypeOK
  BY DocumentTypes DEF Init, TypeOK, Steps, FlushSteps
<1>2. TypeOK /\ [Next]_vars => TypeOK'
  <2> SUFFICES ASSUME TypeOK, [Next]_vars PROVE TypeOK'
    OBVIOUS
  <2> USE DEF TypeOK, Steps, FlushSteps, stateVars, nonceVars, outboxVars,
              syncVars, historyVars
  <2>1. ASSUME NEW w \in Workers, NEW i \in Intents, HandleScan(w, i) PROVE TypeOK'
    BY <2>1 DEF HandleScan
  <2>2. ASSUME NEW w \in Workers, WorkerStep(w) PROVE TypeOK'
    <3> USE DEF Goto, Finish
    <3>1. CASE RedeemAccepted(w)
      BY <3>1 DEF RedeemAccepted
    <3>2. CASE RedeemRefused(w)
      BY <3>2 DEF RedeemRefused, EnterSetupMode
    <3>3. CASE RedeemUnavailable(w)
      BY <3>3 DEF RedeemUnavailable
    <3>4. CASE TryContingency(w)
      BY <3>4 DEF TryContingency
    <3>5. CASE Verify(w)
      BY <3>5 DEF Verify
    <3>6. CASE MarkConsumed(w)
      BY <3>6, DocumentTypes DEF MarkConsumed
    <3>7. CASE ReplaceNonce(w)
      BY <3>7, DocumentTypes DEF ReplaceNonce
    <3>8. CASE EnqueueOutbox(w)
      BY <3>8, DocumentTypes DEF EnqueueOutbox
    <3>9. CASE ReplaceOutbox(w)
      BY <3>9, DocumentTypes DEF ReplaceOutbox
    <3>10. CASE OpenOnline(w)
      BY <3>10 DEF OpenOnline
    <3>11. CASE OpenOffline(w)
      BY <3>11 DEF OpenOffline
    <3> QED
      BY <2>2, <3>1, <3>2, <3>3, <3>4, <3>5, <3>6, <3>7, <3>8, <3>9, <3>10, <3>11
      DEF WorkerStep
  <2>3. CASE DebounceElapses
    BY <2>3 DEF DebounceElapses
  <2>4. CASE SyncStep
    <3> USE DEF EndFlush
    <3>1. CASE StartSync
      BY <3>1 DEF StartSync
    <3>2. CASE SyncPolicy
      BY <3>2 DEF SyncPolicy, PolicyFetched, EnterSetupMode
    <3>3. CASE PendingOutboxEvents
      BY <3>3 DEF PendingOutboxEvents
    <3>4. CASE FlushDelivered
      BY <3>4 DEF FlushDelivered
    <3>5. CASE FlushFailed
      BY <3>5 DEF FlushFailed, EnterSetupMode
    <3>6. CASE MarkOutboxFlushed
      BY <3>6, DocumentTypes DEF MarkOutboxFlushed
    <3>7. CASE ReplaceCleared
      BY <3>7, DocumentTypes DEF ReplaceCleared
    <3> QED
      BY <2>4, <3>1, <3>2, <3>3, <3>4, <3>5, <3>6, <3>7 DEF SyncStep
  <2>5. CASE CommandSync
    BY <2>5 DEF CommandSync, PolicyFetched, EnterSetupMode
  <2>6. CASE CompleteClaim
    BY <2>6 DEF CompleteClaim
  <2>7. CASE PowerCut
    BY <2>7 DEF PowerCut, Documents
  <2>8. CASE UNCHANGED vars
    BY <2>8 DEF vars
  <2> QED
    BY <2>1, <2>2, <2>3, <2>4, <2>5, <2>6, <2>7, <2>8 DEF Next
<1> QED
  BY <1>1, <1>2, PTL DEF Spec

-----------------------------------------------------------------------------
(* What is in flash when the door opens *)

(* No step but these touches the stores or the history they explain. *)
StoresUnchanged == UNCHANGED <<nonceVars, historyVars>>

(* Only marking, storing and opening touch nonces and doors. *)
LEMMA QuietSteps ==
  ASSUME [Next]_vars,
         ~PowerCut,
         \A w \in Workers : ~MarkConsumed(w) /\ ~ReplaceNonce(w) /\ ~OpenOffline(w)
  PROVE  StoresUnchanged
<1> USE DEF StoresUnchanged, historyVars
<1>1. ASSUME NEW w \in Workers, NEW i \in Intents, HandleScan(w, i) PROVE StoresUnchanged
  BY <1>1 DEF HandleScan
<1>2. ASSUME NEW w \in Workers, WorkerStep(w) PROVE StoresUnchanged
  BY <1>2 DEF WorkerStep, RedeemAccepted, RedeemRefused, RedeemUnavailable, TryContingency,
              Verify, EnqueueOutbox, ReplaceOutbox, OpenOnline
<1>3. CASE SyncStep
  BY <1>3 DEF SyncStep, StartSync, SyncPolicy, PendingOutboxEvents, FlushDelivered,
              FlushFailed, MarkOutboxFlushed, ReplaceCleared
<1>4. CASE DebounceElapses \/ CommandSync \/ CompleteClaim
  BY <1>4 DEF DebounceElapses, CommandSync, CompleteClaim
<1>5. CASE UNCHANGED vars
  BY <1>5 DEF vars
<1> QED
  BY <1>1, <1>2, <1>3, <1>4, <1>5 DEF Next

(* A worker enters the marked steps only through ReplaceNonce. *)
LEMMA QuietWorkers ==
  ASSUME TypeOK, [Next]_vars,
         ~PowerCut,
         \A w \in Workers : ~MarkConsumed(w) /\ ~ReplaceNonce(w),
         NEW v \in Workers,
         pc'[v] \in {"replaceNonce"} \cup Marked
  PROVE  /\ scan'[v] = scan[v]
         /\ pc'[v] = "replaceNonce" <=> pc[v] = "replaceNonce"
         /\ pc'[v] \in Marked <=> pc[v] \in Marked
<1> USE DEF TypeOK, Goto, Finish, Marked
<1>1. ASSUME NEW w \in Workers, NEW i \in Intents, HandleScan(w, i)
      PROVE  pc' = [pc EXCEPT ![w] = "redeem"] /\ scan' = [scan EXCEPT ![w] = i]
  BY <1>1 DEF HandleScan
<1>2. ASSUME NEW w \in Workers, WorkerStep(w)
      PROVE  \/ pc' = [pc EXCEPT ![w] = "idle"] /\ scan' = [scan EXCEPT ![w] = NoIntent]
             \/ /\ scan' = scan
                /\ \E s \in {"online", "contingency", "verify", "mark"} :
                     pc' = [pc EXCEPT ![w] = s]
             \/ /\ scan' = scan /\ pc[w] \in Marked
                /\ \E s \in Marked : pc' = [pc EXCEPT ![w] = s]
  BY <1>2 DEF WorkerStep, RedeemAccepted, RedeemRefused, RedeemUnavailable, TryContingency,
              Verify, EnqueueOutbox, ReplaceOutbox, OpenOnline, OpenOffline
<1>3. ASSUME SyncStep \/ DebounceElapses \/ CommandSync \/ CompleteClaim \/ UNCHANGED vars
      PROVE  pc' = pc /\ scan' = scan
  BY <1>3 DEF SyncStep, StartSync, SyncPolicy, PendingOutboxEvents, FlushDelivered,
              FlushFailed, MarkOutboxFlushed, ReplaceCleared, DebounceElapses, CommandSync,
              CompleteClaim, vars
<1>4. CASE \E w \in Workers, i \in Intents : HandleScan(w, i)
  BY <1>4, <1>1
<1>5. CASE \E w \in Workers : WorkerStep(w)
  BY <1>5, <1>2
<1> QED
  BY <1>3, <1>4, <1>5 DEF Next

(* The invariant holds at the start. *)
LEMMA IInvInit == Init => IInv
BY DocumentTypes
   DEF Init, IInv, TypeOK, Steps, FlushSteps, DocumentInMemory, MarkedIsStored, Marked,
       OpenedStaysConsumed

(* Every step preserves the invariant. *)
LEMMA IInvStep == IInv /\ TypeOK' /\ [Next]_vars => IInv'
<1> SUFFICES ASSUME IInv, TypeOK', [Next]_vars
             PROVE  DocumentInMemory' /\ MarkedIsStored' /\ OpenedStaysConsumed'
  BY DEF IInv
<1>1. CASE PowerCut
  BY <1>1 DEF IInv, TypeOK, Documents, PowerCut, DocumentInMemory, MarkedIsStored, Marked,
              OpenedStaysConsumed
<1>2. ASSUME NEW w \in Workers, MarkConsumed(w)
      PROVE  DocumentInMemory' /\ MarkedIsStored' /\ OpenedStaysConsumed'
  <2> USE DEF IInv, TypeOK, MarkConsumed, historyVars, Goto, Finish
  <2>1. DocumentInMemory'
    BY <1>2, DocumentTypes DEF DocumentInMemory
  <2>2. MarkedIsStored'
    BY <1>2, DocumentTypes DEF MarkedIsStored, Marked
  <2>3. OpenedStaysConsumed'
    BY <1>2, DocumentTypes DEF OpenedStaysConsumed
  <2> QED
    BY <2>1, <2>2, <2>3
<1>3. ASSUME NEW w \in Workers, ReplaceNonce(w)
      PROVE  DocumentInMemory' /\ MarkedIsStored' /\ OpenedStaysConsumed'
  <2> USE DEF IInv, TypeOK, ReplaceNonce, historyVars, Goto, Finish
  <2>1. DocumentInMemory'
    BY <1>3, DocumentTypes DEF DocumentInMemory
  <2>2. MarkedIsStored'
    BY <1>3, DocumentTypes DEF MarkedIsStored, Marked
  <2>3. OpenedStaysConsumed'
    BY <1>3, DocumentTypes DEF OpenedStaysConsumed
  <2> QED
    BY <2>1, <2>2, <2>3
<1>4. CASE /\ ~PowerCut
           /\ \A w \in Workers : ~MarkConsumed(w) /\ ~ReplaceNonce(w)
  <2>1. UNCHANGED <<nonce, nonceDoc, stored, nonceLost>>
    <3>1. CASE \E w \in Workers : OpenOffline(w)
      BY <3>1 DEF OpenOffline, nonceVars
    <3> QED
      BY <1>4, <3>1, QuietSteps DEF StoresUnchanged, nonceVars, historyVars
  <2>2. DocumentInMemory'
    BY <2>1 DEF IInv, DocumentInMemory
  <2>3. MarkedIsStored'
    BY <1>4, <2>1, QuietWorkers DEF IInv, MarkedIsStored, Marked
  <2>4. OpenedStaysConsumed'
    <3>1. ASSUME NEW w \in Workers, OpenOffline(w) PROVE OpenedStaysConsumed'
      <4>1. /\ scan[w] \in stored /\ scan[w] \in nonce
            /\ nonceDoc.there => scan[w] \in nonceDoc.body
        BY <3>1 DEF OpenOffline, IInv, MarkedIsStored, Marked
      <4> QED
        BY <2>1, <3>1, <4>1 DEF OpenOffline, IInv, OpenedStaysConsumed
    <3>2. CASE \A w \in Workers : ~OpenOffline(w)
      BY <1>4, <3>2, QuietSteps
      DEF StoresUnchanged, nonceVars, historyVars, IInv, OpenedStaysConsumed
    <3> QED
      BY <3>1, <3>2
  <2> QED
    BY <2>2, <2>3, <2>4
<1> QED
  BY <1>1, <1>2, <1>3, <1>4

(* The door opens offline only after the intent's consumption is in flash,   *)
(* with any number of scan tasks and a power cut at any step: only the       *)
(* remove-then-rename window of WriteFileAtomic can make the reader forget.  *)
THEOREM DurableBeforeOpen == Spec => []OpenedStaysConsumed
<1>1. IInv => OpenedStaysConsumed
  BY DEF IInv
<1> QED
  BY <1>1, IInvInit, IInvStep, TypeCorrect, PTL DEF Spec

-----------------------------------------------------------------------------
(* Any number of scan tasks implements TicketUse *)

TicketInv == IInv /\ NoTaskOpensTwice

(* A worker is admitted only by Verify, with a ticket that was not consumed. *)
LEMMA AdmittedWorkers ==
  ASSUME TypeOK, [Next]_vars, ~PowerCut,
         NEW v \in Workers, pc'[v] \in Admitted
  PROVE  /\ scan'[v] = scan[v]
         /\ pc[v] \in Admitted \/ (pc[v] = "verify" /\ scan[v] \notin nonce)
<1> USE DEF TypeOK, Goto, Finish, Admitted
<1>1. ASSUME NEW w \in Workers, NEW i \in Intents, HandleScan(w, i)
      PROVE  pc' = [pc EXCEPT ![w] = "redeem"] /\ scan' = [scan EXCEPT ![w] = i]
  BY <1>1 DEF HandleScan
<1>2. ASSUME NEW w \in Workers, WorkerStep(w)
      PROVE  \/ pc' = [pc EXCEPT ![w] = "idle"] /\ scan' = [scan EXCEPT ![w] = NoIntent]
             \/ /\ scan' = scan
                /\ \E s \in {"online", "contingency", "verify"} : pc' = [pc EXCEPT ![w] = s]
             \/ /\ scan' = scan
                /\ pc[w] \in Admitted \/ (pc[w] = "verify" /\ scan[w] \notin nonce)
                /\ \E s \in Admitted : pc' = [pc EXCEPT ![w] = s]
  BY <1>2 DEF WorkerStep, RedeemAccepted, RedeemRefused, RedeemUnavailable, TryContingency,
              Verify, MarkConsumed, ReplaceNonce, EnqueueOutbox, ReplaceOutbox, OpenOnline,
              OpenOffline
<1>3. ASSUME SyncStep \/ DebounceElapses \/ CommandSync \/ CompleteClaim \/ UNCHANGED vars
      PROVE  pc' = pc /\ scan' = scan
  BY <1>3 DEF SyncStep, StartSync, SyncPolicy, PendingOutboxEvents, FlushDelivered,
              FlushFailed, MarkOutboxFlushed, ReplaceCleared, DebounceElapses, CommandSync,
              CompleteClaim, vars
<1>4. CASE \E w \in Workers, i \in Intents : HandleScan(w, i)
  BY <1>4, <1>1
<1>5. CASE \E w \in Workers : WorkerStep(w)
  BY <1>5, <1>2
<1> QED
  BY <1>3, <1>4, <1>5 DEF Next

(* Nobody is on the way to the door at the start. *)
LEMMA TicketInvInit == Init => TicketInv
BY IInvInit DEF Init, TicketInv, NoTaskOpensTwice, Admitted

(* Whoever opened the door is refused by Verify from then on. *)
LEMMA TicketInvStep == TicketInv /\ TypeOK' /\ [Next]_vars => TicketInv'
<1> SUFFICES ASSUME TicketInv, TypeOK', [Next]_vars
             PROVE  NoTaskOpensTwice'
  BY IInvStep DEF TicketInv
<1> TypeOK /\ OpenedStaysConsumed
  BY DEF TicketInv, IInv
<1>1. CASE PowerCut
  BY <1>1 DEF PowerCut, NoTaskOpensTwice, Admitted
<1>2. ASSUME NEW w \in Workers, OpenOffline(w) PROVE NoTaskOpensTwice'
  <2>1. /\ scan[w] \in Intents
        /\ pc' = [pc EXCEPT ![w] = "idle"] /\ scan' = [scan EXCEPT ![w] = NoIntent]
        /\ openedBy' = [openedBy EXCEPT ![scan[w]] = @ \cup {w}] /\ nonceLost' = nonceLost
    BY <1>2 DEF OpenOffline, Finish, TypeOK
  <2>2. pc'[w] \notin Admitted
    BY <2>1 DEF TypeOK, Admitted
  <2>3. ASSUME NEW v \in Workers, v # w, pc'[v] \in Admitted, scan'[v] \notin nonceLost
        PROVE  v \notin openedBy'[scan'[v]]
    <3>1. pc'[v] = pc[v] /\ scan'[v] = scan[v] /\ scan[v] \in Intents
      BY <2>1, <2>3 DEF TypeOK, Admitted
    <3>2. v \notin openedBy[scan[v]]
      BY <2>3, <3>1 DEF TicketInv, NoTaskOpensTwice
    <3> QED
      BY <2>1, <2>3, <3>1, <3>2 DEF TypeOK
  <2> QED
    BY <2>1, <2>2, <2>3 DEF NoTaskOpensTwice
<1>3. CASE ~PowerCut /\ \A w \in Workers : ~OpenOffline(w)
  <2>1. UNCHANGED <<openedBy, nonceLost>>
    <3>1. CASE \E w \in Workers : MarkConsumed(w) \/ ReplaceNonce(w)
      BY <3>1 DEF MarkConsumed, ReplaceNonce, historyVars
    <3> QED
      BY <1>3, <3>1, QuietSteps DEF StoresUnchanged, historyVars
  <2>2. ASSUME NEW v \in Workers, pc'[v] \in Admitted, scan'[v] \notin nonceLost
        PROVE  v \notin openedBy[scan'[v]]
    <3>1. /\ scan'[v] = scan[v]
          /\ pc[v] \in Admitted \/ (pc[v] = "verify" /\ scan[v] \notin nonce)
      BY <1>3, <2>2, AdmittedWorkers
    <3>2. CASE pc[v] \in Admitted
      BY <2>2, <3>1, <3>2 DEF TicketInv, NoTaskOpensTwice
    <3>3. CASE pc[v] = "verify" /\ scan[v] \notin nonce
      BY <2>2, <3>1, <3>3 DEF OpenedStaysConsumed, TypeOK
    <3> QED
      BY <3>1, <3>2, <3>3
  <2> QED
    BY <2>1, <2>2 DEF NoTaskOpensTwice
<1> QED
  BY <1>1, <1>2, <1>3

(* However many tasks scan at once, and wherever the power is cut, no task *)
(* opens the door offline with a ticket it has opened it with before,      *)
(* unless the ticket was lost with the document (contingency.cpp:316, 349). *)
THEOREM OpensOncePerTask == Spec => []NoTaskOpensTwice
<1>1. TicketInv => NoTaskOpensTwice
  BY DEF TicketInv
<1> QED
  BY <1>1, TicketInvInit, TicketInvStep, TypeCorrect, PTL DEF Spec

-----------------------------------------------------------------------------
(* The appliance starts in a state of the abstract ticket. *)
LEMMA TicketInit == Init => Ticket!Init
BY DEF Init, Ticket!Init, Ticket!Fresh, TicketState, AdmittedWith, Admitted

(* A task that moves on leaves the tickets of the others alone, and its own  *)
(* unless it enters or leaves the way to the door.                           *)
LEMMA TaskMoves ==
  ASSUME TypeOK, NEW w \in Workers, NEW s \in Steps, NEW i \in Intents, scan[w] = i,
         pc' = [pc EXCEPT ![w] = s],
         scan' = scan \/ (s = "idle" /\ scan' = [scan EXCEPT ![w] = NoIntent])
  PROVE  /\ \A j \in Intents \ {i} : AdmittedWith(j)' = AdmittedWith(j)
         /\ (s \in Admitted <=> pc[w] \in Admitted) => AdmittedWith(i)' = AdmittedWith(i)
         /\ s \in Admitted => AdmittedWith(i)' = AdmittedWith(i) \cup {w}
         /\ s \notin Admitted => AdmittedWith(i)' = AdmittedWith(i) \ {w}
<1>1. \A v \in Workers \ {w} : pc'[v] = pc[v] /\ scan'[v] = scan[v]
  BY DEF TypeOK
<1>2. pc'[w] = s /\ (s \in Admitted => scan'[w] = i)
  BY DEF TypeOK, Admitted
<1>3. ASSUME NEW j \in Intents \ {i} PROVE AdmittedWith(j)' = AdmittedWith(j)
  <2>1. w \notin AdmittedWith(j) /\ w \notin AdmittedWith(j)'
    BY <1>2 DEF AdmittedWith
  <2> QED
    BY <1>1, <2>1 DEF AdmittedWith
<1>4. w \in AdmittedWith(i)' <=> s \in Admitted
  BY <1>2 DEF AdmittedWith
<1>5. \A v \in Workers \ {w} : v \in AdmittedWith(i)' <=> v \in AdmittedWith(i)
  BY <1>1 DEF AdmittedWith
<1>6. AdmittedWith(i) \subseteq Workers /\ AdmittedWith(i)' \subseteq Workers
  BY DEF AdmittedWith
<1>7. w \in AdmittedWith(i) <=> pc[w] \in Admitted
  BY DEF AdmittedWith
<1> QED
  BY <1>3, <1>4, <1>5, <1>6, <1>7

(* What a step does to one ticket is what it does to the abstract state. *)
LEMMA OneTicket ==
  ASSUME NEW i \in Intents, NEW r, TicketState(i)' = r,
         \A j \in Intents \ {i} : TicketState(j)' = TicketState(j)
  PROVE  [j \in Intents |-> TicketState(j)]' = [[j \in Intents |-> TicketState(j)] EXCEPT ![i] = r]
OBVIOUS

(* Where the stores rest, only an admission moves a ticket. *)
LEMMA TicketQuiet ==
  ASSUME TypeOK, [Next]_vars, ~PowerCut,
         \A w \in Workers : ~MarkConsumed(w) /\ ~ReplaceNonce(w) /\ ~OpenOffline(w),
         ~\E w \in Workers : Verify(w)
  PROVE  UNCHANGED [i \in Intents |-> TicketState(i)]
<1>1. UNCHANGED <<nonce, openedBy, nonceLost>>
  BY QuietSteps DEF StoresUnchanged, nonceVars, historyVars
<1>2. \A j \in Intents : AdmittedWith(j)' = AdmittedWith(j)
  <2> USE DEF TypeOK, Goto, Finish
  <2>1. ASSUME NEW w \in Workers, NEW i \in Intents, HandleScan(w, i)
        PROVE  \A j \in Intents : AdmittedWith(j)' = AdmittedWith(j)
    BY <2>1 DEF HandleScan, AdmittedWith, Admitted
  <2>2. ASSUME NEW w \in Workers, WorkerStep(w)
        PROVE  \A j \in Intents : AdmittedWith(j)' = AdmittedWith(j)
    <3>1. PICK s \in Steps :
            /\ pc' = [pc EXCEPT ![w] = s]
            /\ scan' = scan \/ (s = "idle" /\ scan' = [scan EXCEPT ![w] = NoIntent])
            /\ s \in Admitted <=> pc[w] \in Admitted
      BY <2>2 DEF WorkerStep, RedeemAccepted, RedeemRefused, RedeemUnavailable,
                  TryContingency, EnqueueOutbox, ReplaceOutbox, OpenOnline, Steps, Admitted
    <3>2. pc[w] # "idle"
      BY <2>2 DEF WorkerStep, RedeemAccepted, RedeemRefused, RedeemUnavailable,
                  TryContingency, EnqueueOutbox, ReplaceOutbox, OpenOnline
    <3> PICK i \in Intents : i = scan[w]
      BY <3>2
    <3>3. /\ \A j \in Intents \ {i} : AdmittedWith(j)' = AdmittedWith(j)
          /\ AdmittedWith(i)' = AdmittedWith(i)
      BY <3>1, TaskMoves
    <3> QED
      BY <3>3
  <2>3. ASSUME SyncStep \/ DebounceElapses \/ CommandSync \/ CompleteClaim \/ UNCHANGED vars
        PROVE  pc' = pc /\ scan' = scan
    BY <2>3 DEF SyncStep, StartSync, SyncPolicy, PendingOutboxEvents, FlushDelivered,
                FlushFailed, MarkOutboxFlushed, ReplaceCleared, DebounceElapses, CommandSync,
                CompleteClaim, vars
  <2> QED
    BY <2>1, <2>2, <2>3 DEF Next, AdmittedWith
<1> QED
  BY <1>1, <1>2 DEF TicketState

(* The steps that move a ticket: admission, the note, the door, giving up, *)
(* and a power cut.                                                        *)
LEMMA TicketStep ==
  TicketInv /\ [Next]_vars => [Ticket!Next]_([i \in Intents |-> TicketState(i)])
<1> SUFFICES ASSUME TicketInv, [Next]_vars
             PROVE  Ticket!Next \/ UNCHANGED [i \in Intents |-> TicketState(i)]
  OBVIOUS
<1> DEFINE T == [i \in Intents |-> TicketState(i)]
<1> TypeOK /\ OpenedStaysConsumed /\ NoTaskOpensTwice /\ DocumentInMemory /\ MarkedIsStored
  BY DEF TicketInv, IInv
<1>1. ASSUME NEW w \in Workers, Verify(w) PROVE Ticket!Next \/ UNCHANGED T
  <2> PICK i \in Intents : i = scan[w]
    BY <1>1 DEF Verify, TypeOK
  <2>1. UNCHANGED <<nonce, openedBy, nonceLost>> /\ w \notin AdmittedWith(i)
    BY <1>1 DEF Verify, nonceVars, historyVars, AdmittedWith, Admitted
  <2>2. CASE pc' = [pc EXCEPT ![w] = "mark"] /\ scan' = scan /\ i \notin nonce
    <3>0. "mark" \in Steps /\ "mark" \in Admitted
      BY DEF Steps, Admitted
    <3>1. /\ \A j \in Intents \ {i} : AdmittedWith(j)' = AdmittedWith(j)
          /\ AdmittedWith(i)' = AdmittedWith(i) \cup {w}
      BY <2>2, <3>0, TaskMoves
    <3>2. \A j \in Intents \ {i} : TicketState(j)' = TicketState(j)
      BY <2>1, <3>1 DEF TicketState
    <3>3. CASE i \in nonceLost
      BY <2>1, <3>2, <3>3 DEF TicketState
    <3>4. CASE i \notin nonceLost
      <4>1. TicketState(i)' = [TicketState(i) EXCEPT !.admitted = @ \cup {w}]
        BY <2>1, <3>1, <3>4 DEF TicketState
      <4>2. T' = [T EXCEPT ![i].admitted = @ \cup {w}]
        BY <3>2, <4>1, OneTicket
      <4>3. T[i].state = "fresh" /\ w \notin T[i].admitted
        BY <2>1, <2>2, <3>4 DEF TicketState
      <4> QED
        BY <4>2, <4>3 DEF Ticket!Next, Ticket!Admit
    <3> QED
      BY <3>3, <3>4
  <2>3. CASE pc' = [pc EXCEPT ![w] = "idle"] /\ scan' = [scan EXCEPT ![w] = NoIntent]
    <3>0. "idle" \in Steps /\ "idle" \notin Admitted /\ pc[w] \notin Admitted
      BY <1>1 DEF Verify, Steps, Admitted
    <3>1. /\ \A j \in Intents \ {i} : AdmittedWith(j)' = AdmittedWith(j)
          /\ AdmittedWith(i)' = AdmittedWith(i)
      BY <2>3, <3>0, TaskMoves
    <3> QED
      BY <2>1, <3>1 DEF TicketState
  <2> QED
    BY <1>1, <2>2, <2>3 DEF Verify, Goto, Finish
<1>2. ASSUME NEW w \in Workers, MarkConsumed(w) PROVE Ticket!Next \/ UNCHANGED T
  <2> PICK i \in Intents : i = scan[w]
    BY <1>2 DEF MarkConsumed, TypeOK
  <2>1. /\ nonce' = nonce \cup {i} /\ UNCHANGED <<openedBy, nonceLost>>
        /\ w \in AdmittedWith(i)
    BY <1>2 DEF MarkConsumed, historyVars, AdmittedWith, Admitted
  <2>2. PICK left \in {{}, {w}} :
          \A j \in Intents :
            AdmittedWith(j)' = IF j = i THEN AdmittedWith(j) \ left ELSE AdmittedWith(j)
    <3>0. /\ {"replaceNonce", "idle"} \subseteq Steps
          /\ "replaceNonce" \in Admitted /\ "idle" \notin Admitted /\ pc[w] \in Admitted
      BY <1>2 DEF MarkConsumed, Steps, Admitted
    <3>1. CASE Goto(w, "replaceNonce")
      <4>1. /\ \A j \in Intents \ {i} : AdmittedWith(j)' = AdmittedWith(j)
            /\ AdmittedWith(i)' = AdmittedWith(i)
        BY <3>0, <3>1, TaskMoves DEF Goto
      <4> WITNESS {} \in {{}, {w}}
      <4> QED
        BY <4>1
    <3>2. CASE Finish(w)
      <4>1. /\ \A j \in Intents \ {i} : AdmittedWith(j)' = AdmittedWith(j)
            /\ AdmittedWith(i)' = AdmittedWith(i) \ {w}
        BY <3>0, <3>2, TaskMoves DEF Finish
      <4> WITNESS {w} \in {{}, {w}}
      <4> QED
        BY <4>1
    <3> QED
      BY <1>2, <3>1, <3>2 DEF MarkConsumed
  <2>3. \A j \in Intents \ {i} : TicketState(j)' = TicketState(j)
    BY <2>1, <2>2 DEF TicketState
  <2>4. CASE i \in nonceLost
    BY <2>1, <2>3, <2>4 DEF TicketState
  <2>5. CASE i \notin nonceLost /\ i \notin nonce
    <3>1. T[i] = [state |-> "fresh", admitted |-> AdmittedWith(i), opened |-> openedBy[i]]
      BY <2>5 DEF TicketState
    <3>2. TicketState(i)' = [state |-> "consumed", admitted |-> T[i].admitted \ left,
                             opened |-> T[i].opened]
      BY <2>1, <2>2, <2>5, <3>1 DEF TicketState
    <3>3. T' = [T EXCEPT ![i] = [state |-> "consumed", admitted |-> @.admitted \ left,
                                 opened |-> @.opened]]
      BY <2>3, <3>2, OneTicket
    <3>4. T[i].state = "fresh" /\ w \in T[i].admitted
      BY <2>1, <3>1
    <3>5. \E l \in {{}, {w}} :
            T' = [T EXCEPT ![i] = [state |-> "consumed", admitted |-> @.admitted \ l,
                                   opened |-> @.opened]]
      BY <3>3
    <3>6. Ticket!Consume(i, w)
      BY <3>4, <3>5 DEF Ticket!Consume
    <3> QED
      BY <3>6 DEF Ticket!Next
  <2>6. CASE i \notin nonceLost /\ i \in nonce
    <3>1. TicketState(i)' = [TicketState(i) EXCEPT !.admitted = @ \ left]
      BY <2>1, <2>2, <2>6 DEF TicketState
    <3>2. CASE left = {}
      BY <2>1, <2>2, <2>3, <2>6, <3>2 DEF TicketState
    <3>3. CASE left = {w}
      <4>1. T' = [T EXCEPT ![i].admitted = @ \ {w}]
        BY <2>3, <3>1, <3>3, OneTicket
      <4>2. w \in T[i].admitted
        BY <2>1, <2>6 DEF TicketState
      <4> QED
        BY <4>1, <4>2 DEF Ticket!Next, Ticket!Refuse
    <3> QED
      BY <3>2, <3>3
  <2> QED
    BY <2>4, <2>5, <2>6
<1>3. ASSUME NEW w \in Workers, ReplaceNonce(w) PROVE Ticket!Next \/ UNCHANGED T
  <2> PICK i \in Intents : i = scan[w]
    BY <1>3 DEF ReplaceNonce, TypeOK
  <2>1. UNCHANGED <<nonce, openedBy, nonceLost>> /\ w \in AdmittedWith(i)
    BY <1>3 DEF ReplaceNonce, AdmittedWith, Admitted
  <2>2. CASE Goto(w, "enqueue")
    <3>0. "enqueue" \in Steps /\ "enqueue" \in Admitted /\ pc[w] \in Admitted
      BY <1>3 DEF ReplaceNonce, Steps, Admitted
    <3>1. /\ \A j \in Intents \ {i} : AdmittedWith(j)' = AdmittedWith(j)
          /\ AdmittedWith(i)' = AdmittedWith(i)
      BY <2>2, <3>0, TaskMoves DEF Goto
    <3> QED
      BY <2>1, <3>1 DEF TicketState
  <2>3. CASE Finish(w)
    <3>0. "idle" \in Steps /\ "idle" \notin Admitted
      BY DEF Steps, Admitted
    <3>1. /\ \A j \in Intents \ {i} : AdmittedWith(j)' = AdmittedWith(j)
          /\ AdmittedWith(i)' = AdmittedWith(i) \ {w}
      BY <2>3, <3>0, TaskMoves DEF Finish
    <3>2. \A j \in Intents \ {i} : TicketState(j)' = TicketState(j)
      BY <2>1, <3>1 DEF TicketState
    <3>3. CASE i \in nonceLost
      BY <2>1, <3>2, <3>3 DEF TicketState
    <3>4. CASE i \notin nonceLost
      <4>1. TicketState(i)' = [TicketState(i) EXCEPT !.admitted = @ \ {w}]
        BY <2>1, <3>1, <3>4 DEF TicketState
      <4>2. T' = [T EXCEPT ![i].admitted = @ \ {w}]
        BY <3>2, <4>1, OneTicket
      <4>3. w \in T[i].admitted
        BY <2>1, <3>4 DEF TicketState
      <4> QED
        BY <4>2, <4>3 DEF Ticket!Next, Ticket!Refuse
    <3> QED
      BY <3>3, <3>4
  <2> QED
    BY <1>3, <2>2, <2>3 DEF ReplaceNonce
<1>4. ASSUME NEW w \in Workers, OpenOffline(w) PROVE Ticket!Next \/ UNCHANGED T
  <2> PICK i \in Intents : i = scan[w]
    BY <1>4 DEF OpenOffline, TypeOK
  <2>1. /\ UNCHANGED <<nonce, nonceLost>> /\ openedBy' = [openedBy EXCEPT ![i] = @ \cup {w}]
        /\ i \in nonce /\ w \in AdmittedWith(i)
    BY <1>4 DEF OpenOffline, nonceVars, AdmittedWith, Admitted, MarkedIsStored, Marked
  <2>2. /\ \A j \in Intents \ {i} : AdmittedWith(j)' = AdmittedWith(j)
        /\ AdmittedWith(i)' = AdmittedWith(i) \ {w}
    <3>1. "idle" \in Steps /\ "idle" \notin Admitted
      BY DEF Steps, Admitted
    <3> QED
      BY <1>4, <3>1, TaskMoves DEF OpenOffline, Finish
  <2>3. \A j \in Intents \ {i} : TicketState(j)' = TicketState(j)
    BY <2>1, <2>2 DEF TicketState, TypeOK
  <2>4. CASE i \in nonceLost
    BY <2>1, <2>3, <2>4 DEF TicketState
  <2>5. CASE i \notin nonceLost
    <3>1. T[i] = [state |-> "consumed", admitted |-> AdmittedWith(i), opened |-> openedBy[i]]
      BY <2>1, <2>5 DEF TicketState
    <3>2. TicketState(i)' = [state |-> "consumed", admitted |-> T[i].admitted \ {w},
                             opened |-> T[i].opened \cup {w}]
      BY <2>1, <2>2, <2>5, <3>1 DEF TicketState, TypeOK
    <3>3. T' = [T EXCEPT ![i] = [state |-> "consumed", admitted |-> @.admitted \ {w},
                                 opened |-> @.opened \cup {w}]]
      BY <2>3, <3>2, OneTicket
    <3>4. w \notin openedBy[i]
      BY <1>4, <2>5 DEF OpenOffline, NoTaskOpensTwice, Admitted
    <3>5. T[i].state = "consumed" /\ w \in T[i].admitted /\ w \notin T[i].opened
      BY <2>1, <3>1, <3>4
    <3> QED
      BY <3>3, <3>5 DEF Ticket!Next, Ticket!Open
  <2> QED
    BY <2>4, <2>5
<1>5. CASE PowerCut
  <2>1. /\ nonce' = nonceDoc.body /\ UNCHANGED openedBy
        /\ nonceLost' = nonceLost \cup (IF nonceDoc.there THEN {} ELSE nonce)
        /\ \A j \in Intents : AdmittedWith(j)' = {}
    BY <1>5 DEF PowerCut, AdmittedWith, Admitted
  <2>2. CASE nonceDoc.there
    <3> DEFINE S == {i \in Intents \ nonceLost : i \in nonce /\ i \notin nonceDoc.body}
    <3>1. \A i \in S : T[i].state = "consumed" /\ T[i].opened = {}
      BY <2>2 DEF TicketState, OpenedStaysConsumed
    <3>2. \A i \in Intents : TicketState(i)' =
            IF i \in S THEN Ticket!Fresh ELSE [T[i] EXCEPT !.admitted = {}]
      BY <2>1, <2>2, <3>1 DEF TicketState, Ticket!Fresh, DocumentInMemory
    <3>3. Ticket!Restart(S)
      BY <3>1, <3>2 DEF Ticket!Restart
    <3>4. S \in SUBSET Intents
      OBVIOUS
    <3> QED
      BY <3>3, <3>4 DEF Ticket!Next
  <2>3. CASE ~nonceDoc.there
    <3> DEFINE F == {i \in Intents \ nonceLost : i \in nonce}
    <3>1. \A i \in F : T[i].state = "consumed"
      BY DEF TicketState
    <3>2. \A i \in Intents : TicketState(i)' =
            IF i \in F THEN Ticket!Forgotten ELSE [T[i] EXCEPT !.admitted = {}]
      BY <2>1, <2>3 DEF TicketState, Ticket!Fresh, Ticket!Forgotten, DocumentInMemory
    <3>3. Ticket!Forget(F)
      BY <3>1, <3>2 DEF Ticket!Forget
    <3>4. F \in SUBSET Intents
      OBVIOUS
    <3> QED
      BY <3>3, <3>4 DEF Ticket!Next
  <2> QED
    BY <2>2, <2>3
<1>6. CASE /\ ~PowerCut
           /\ \A w \in Workers : ~MarkConsumed(w) /\ ~ReplaceNonce(w) /\ ~OpenOffline(w)
           /\ ~\E w \in Workers : Verify(w)
  BY <1>6, TicketQuiet
<1> QED
  BY <1>1, <1>2, <1>3, <1>4, <1>5, <1>6

(* With any number of scan tasks the reader implements TicketUse: a ticket  *)
(* is consumed before it opens the door, whoever asks after that is refused, *)
(* and it opens the door once for each scan that had asked before.           *)
THEOREM ImplementsTickets == Spec => ImplementsTicketUse
BY TicketInit, TicketStep, TicketInvInit, TicketInvStep, TypeCorrect, PTL
   DEF Spec, ImplementsTicketUse, Ticket!Spec

-----------------------------------------------------------------------------
(* The queue is cleared only after Identity answered for the batch. *)
ClearedIsKnown == flush = "clear" => batch \subseteq known

(* What leaves the queue is known to Identity, step by step. *)
LEMMA ClearedStep == ClearedIsKnown /\ [Next]_vars => ClearedIsKnown'
<1> SUFFICES ASSUME ClearedIsKnown, [Next]_vars PROVE ClearedIsKnown'
  OBVIOUS
<1> USE DEF ClearedIsKnown, syncVars
<1>1. ASSUME NEW w \in Workers, NEW i \in Intents, HandleScan(w, i) PROVE ClearedIsKnown'
  BY <1>1 DEF HandleScan
<1>2. ASSUME NEW w \in Workers, WorkerStep(w) PROVE ClearedIsKnown'
  BY <1>2 DEF WorkerStep, RedeemAccepted, RedeemRefused, RedeemUnavailable, TryContingency,
              Verify, MarkConsumed, ReplaceNonce, EnqueueOutbox, ReplaceOutbox, OpenOnline,
              OpenOffline
<1>3. CASE SyncStep
  BY <1>3 DEF SyncStep, StartSync, SyncPolicy, PendingOutboxEvents, FlushDelivered,
              FlushFailed, MarkOutboxFlushed, ReplaceCleared, EndFlush
<1>4. CASE DebounceElapses \/ CommandSync \/ CompleteClaim \/ PowerCut
  BY <1>4 DEF DebounceElapses, CommandSync, CompleteClaim, PowerCut
<1>5. CASE UNCHANGED vars
  BY <1>5 DEF vars
<1> QED
  BY <1>1, <1>2, <1>3, <1>4, <1>5 DEF Next

(* FlushContingencyOutbox: but for a power cut, a posted event leaves the     *)
(* queue only once Identity has it, however many answers were lost on the way. *)
THEOREM PostedEventsRecorded == Spec => PostedThenRecorded
<1>1. Init => ClearedIsKnown
  BY DEF Init, ClearedIsKnown
<1>2. ASSUME ClearedIsKnown, [Next]_vars
      PROVE  [PowerCut \/ \A i \in batch : i \in outbox /\ i \notin outbox' => i \in known]_vars
  <2> SUFFICES ASSUME ~PowerCut, NEW i \in batch, i \in outbox, i \notin outbox'
               PROVE  i \in known
    OBVIOUS
  <2> USE DEF outboxVars
  <2>1. ASSUME NEW w \in Workers, NEW j \in Intents, HandleScan(w, j) PROVE FALSE
    BY <2>1 DEF HandleScan
  <2>2. ASSUME NEW w \in Workers, WorkerStep(w) PROVE FALSE
    BY <2>2 DEF WorkerStep, RedeemAccepted, RedeemRefused, RedeemUnavailable,
                TryContingency, Verify, MarkConsumed, ReplaceNonce, EnqueueOutbox,
                ReplaceOutbox, OpenOnline, OpenOffline
  <2>3. CASE SyncStep
    BY <1>2, <2>3 DEF SyncStep, StartSync, SyncPolicy, PendingOutboxEvents, FlushDelivered,
                FlushFailed, MarkOutboxFlushed, ReplaceCleared, ClearedIsKnown
  <2>4. CASE DebounceElapses \/ CommandSync \/ CompleteClaim
    BY <2>4 DEF DebounceElapses, CommandSync, CompleteClaim
  <2>5. CASE UNCHANGED vars
    BY <2>5 DEF vars
  <2> QED
    BY <1>2, <2>1, <2>2, <2>3, <2>4, <2>5 DEF Next
<1> QED
  BY <1>1, <1>2, ClearedStep, PTL DEF Spec, PostedThenRecorded

=============================================================================
