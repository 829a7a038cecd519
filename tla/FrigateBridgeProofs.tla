------------------------ MODULE FrigateBridgeProofs ------------------------
(***************************************************************************)
(* Proofs about FrigateBridge and the FrigateOutbox it extends: first the  *)
(* outbox on its own, for any number of detections and attempts, with and  *)
(* without file system failures and restarts; then presence sessions, for  *)
(* every set of mappings, every gap and every delay of the messages; and   *)
(* last the outbox in the bridge, which is a refinement of it.             *)
(***************************************************************************)
EXTENDS FrigateBridge, SequenceTheorems, TLAPS

(* An entry counts no more attempts than the flush made for its detection. *)
Counted(s) == \A k \in DOMAIN s : s[k].attempts <= failed[s[k].id]
AttemptsWereMade == Counted(file) /\ Counted(todo) /\ Counted(remaining)

(* A flush in progress holds what it has not settled yet. *)
InHand ==
  flush = "send" => enqueued \subseteq IdsOf(todo) \cup IdsOf(remaining) \cup acknowledged
                                         \cup dropped \cup overtaken

IInv == TypeOK /\ AttemptsWereMade /\ DroppedAfterRetries /\ InHand /\ Accounted

-----------------------------------------------------------------------------
(* What Append, Head and Tail do to the entries of a sequence *)

(* Where the entries of an extended sequence are. *)
LEMMA AppendEntries ==
  ASSUME NEW s \in Seq(Entries), NEW e \in Entries
  PROVE  /\ Append(s, e) \in Seq(Entries)
         /\ DOMAIN s = 1 .. Len(s) /\ Len(s) \in Nat
         /\ DOMAIN Append(s, e) = 1 .. Len(s) + 1
         /\ Append(s, e)[Len(s) + 1] = e
         /\ \A k \in DOMAIN s : Append(s, e)[k] = s[k] /\ k <= Len(s) /\ k < Len(s) + 1
         /\ \A k \in DOMAIN Append(s, e) : k \in DOMAIN s \/ k = Len(s) + 1
BY LenProperties

(* An extended sequence stands for one detection more. *)
LEMMA AppendIds ==
  ASSUME NEW s \in Seq(Entries), NEW e \in Entries
  PROVE  IdsOf(Append(s, e)) = IdsOf(s) \cup {e.id}
<1> DEFINE t == Append(s, e)
<1>1. ASSUME NEW i \in IdsOf(t) PROVE i \in IdsOf(s) \cup {e.id}
  <2>1. PICK k \in DOMAIN t : i = t[k].id
    BY <1>1 DEF IdsOf
  <2>2. CASE k \in DOMAIN s
    BY <2>1, <2>2, AppendEntries DEF IdsOf
  <2>3. CASE k = Len(s) + 1
    BY <2>1, <2>3, AppendEntries
  <2> QED
    BY <2>2, <2>3, AppendEntries
<1>2. ASSUME NEW i \in IdsOf(s) PROVE i \in IdsOf(t)
  <2>1. PICK k \in DOMAIN s : i = s[k].id
    BY <1>2 DEF IdsOf
  <2>2. k \in DOMAIN t /\ t[k] = s[k]
    BY <2>1, AppendEntries
  <2> QED
    BY <2>1, <2>2 DEF IdsOf
<1>3. e.id \in IdsOf(t)
  <2>1. Len(s) + 1 \in DOMAIN t /\ t[Len(s) + 1] = e
    BY AppendEntries
  <2> QED
    BY <2>1 DEF IdsOf
<1> QED
  BY <1>1, <1>2, <1>3

(* Where the entries of a sequence are when the first is taken. *)
LEMMA TailEntries ==
  ASSUME NEW s \in Seq(Entries), s # <<>>
  PROVE  /\ Head(s) \in Entries /\ Tail(s) \in Seq(Entries)
         /\ Head(s) = s[1] /\ 1 \in DOMAIN s
         /\ \A k \in DOMAIN Tail(s) : k + 1 \in DOMAIN s /\ Tail(s)[k] = s[k + 1] /\ k \in Nat
         /\ \A k \in DOMAIN s : k = 1 \/ (k - 1 \in DOMAIN Tail(s) /\ Tail(s)[k - 1] = s[k])
<1>1. Len(s) \in Nat \ {0} /\ DOMAIN s = 1 .. Len(s)
  BY LenProperties, EmptySeq
<1>2. Tail(s) \in Seq(Entries) /\ Len(Tail(s)) = Len(s) - 1
  BY HeadTailProperties
<1>3. DOMAIN Tail(s) = 1 .. (Len(s) - 1)
  BY <1>2, LenProperties
<1>4. Head(s) = s[1] /\ Head(s) \in Entries
  BY <1>1, HeadTailProperties
<1> QED
  BY <1>1, <1>2, <1>3, <1>4, HeadTailProperties

(* A sequence stands for what its head and its tail stand for. *)
LEMMA TailIds ==
  ASSUME NEW s \in Seq(Entries), s # <<>>
  PROVE  IdsOf(s) = {Head(s).id} \cup IdsOf(Tail(s))
<1>1. ASSUME NEW i \in IdsOf(s) PROVE i \in {Head(s).id} \cup IdsOf(Tail(s))
  <2>1. PICK k \in DOMAIN s : i = s[k].id
    BY <1>1 DEF IdsOf
  <2>2. CASE k = 1
    BY <2>1, <2>2, TailEntries
  <2>3. CASE k - 1 \in DOMAIN Tail(s) /\ Tail(s)[k - 1] = s[k]
    BY <2>1, <2>3 DEF IdsOf
  <2> QED
    BY <2>2, <2>3, TailEntries
<1>2. ASSUME NEW i \in IdsOf(Tail(s)) PROVE i \in IdsOf(s)
  <2>1. PICK k \in DOMAIN Tail(s) : i = Tail(s)[k].id
    BY <1>2 DEF IdsOf
  <2>2. k + 1 \in DOMAIN s /\ Tail(s)[k] = s[k + 1]
    BY <2>1, TailEntries
  <2> QED
    BY <2>1, <2>2 DEF IdsOf
<1>3. Head(s).id \in IdsOf(s)
  BY TailEntries DEF IdsOf
<1> QED
  BY <1>1, <1>2, <1>3

(* The empty sequence holds nothing. *)
LEMMA EmptyEntries == <<>> \in Seq(Entries) /\ IdsOf(<<>>) = {} /\ Counted(<<>>)
BY EmptySeq DEF IdsOf, Counted

-----------------------------------------------------------------------------
(* Types *)

(* The initial values have their types. *)
LEMMA InitType == Init => TypeOK
<1> SUFFICES ASSUME Init PROVE TypeOK
  OBVIOUS
<1>1. arrived \in 0 .. Detections /\ ingest = "idle" /\ flush = "idle"
  BY CountAssumption DEF Init
<1>2. file \in Seq(Entries) /\ todo \in Seq(Entries) /\ remaining \in Seq(Entries)
  BY EmptyEntries DEF Init
<1>3. failed \in [Ids -> 0 .. MaxAttempts]
  BY CountAssumption DEF Init
<1> QED
  BY <1>1, <1>2, <1>3 DEF Init, TypeOK

(* Forwarding and appending keep the types. *)
LEMMA IngestTypes ==
  ASSUME TypeOK, Arrive \/ Forwarded \/ ForwardFails \/ Enqueue \/ EnqueueFails
  PROVE  TypeOK'
<1>1. CASE Arrive
  <2>1. arrived' \in 0 .. Detections /\ arrived' \in Ids /\ ingest' = "forward"
    BY <1>1, CountAssumption DEF Arrive, TypeOK, Ids
  <2> QED
    BY <1>1, <2>1 DEF Arrive, TypeOK, flushVars, historyVars
<1>2. CASE Forwarded
  BY <1>2 DEF Forwarded, TypeOK, flushVars
<1>3. CASE ForwardFails
  BY <1>3 DEF ForwardFails, TypeOK, flushVars, historyVars
<1>4. CASE Enqueue
  <2>1. arrived \in Ids /\ [id |-> arrived, attempts |-> 0] \in Entries
    BY <1>4, CountAssumption DEF Enqueue, TypeOK, Entries
  <2>2. file' \in Seq(Entries)
    BY <1>4, <2>1, AppendEntries DEF Enqueue, TypeOK
  <2> QED
    BY <1>4, <2>1, <2>2 DEF Enqueue, TypeOK, flushVars
<1>5. CASE EnqueueFails
  BY <1>5 DEF EnqueueFails, TypeOK, flushVars, historyVars
<1> QED
  BY <1>1, <1>2, <1>3, <1>4, <1>5

(* A retried entry is one attempt older. *)
LEMMA RetriedType ==
  ASSUME NEW e \in Entries, e.attempts < MaxAttempts
  PROVE  /\ Retried(e) \in Entries
         /\ Retried(e).id = e.id /\ Retried(e).attempts = e.attempts + 1
BY CountAssumption DEF Retried, Entries

(* The entry at hand of a flush that sends. *)
LEMMA SendingTypes ==
  ASSUME TypeOK, Sending
  PROVE  /\ flush = "send" /\ todo \in Seq(Entries) /\ todo # <<>>
         /\ Head(todo) \in Entries /\ Head(todo).id \in Ids
         /\ Head(todo).attempts \in 0 .. MaxAttempts
         /\ Tail(todo) \in Seq(Entries)
BY TailEntries DEF Sending, TypeOK, Entries

(* A flush and a restart keep the types. *)
LEMMA FlushTypes ==
  ASSUME TypeOK, StartFlush \/ FlushStep \/ Crash
  PROVE  TypeOK'
<1>1. CASE StartFlush
  BY <1>1 DEF StartFlush, TypeOK, ingestVars, historyVars
<1>2. CASE ReadAll
  BY <1>2, EmptyEntries DEF ReadAll, EndFlush, TypeOK, ingestVars, historyVars
<1>3. CASE DropEntry
  BY <1>3, SendingTypes DEF DropEntry, TypeOK, ingestVars
<1>4. CASE SendAccepted
  BY <1>4, SendingTypes DEF SendAccepted, TypeOK, ingestVars
<1>5. CASE SendFails
  <2>1. Head(todo).attempts < MaxAttempts /\ Head(todo).id \in Ids
    BY <1>5, SendingTypes, CountAssumption DEF SendFails, Exhausted
  <2>2. remaining' \in Seq(Entries)
    BY <1>5, <2>1, SendingTypes, RetriedType, AppendEntries DEF SendFails, TypeOK
  <2>3. failed' \in [Ids -> 0 .. MaxAttempts]
    <3> DEFINE i == Head(todo).id
               n == IF failed[i] < MaxAttempts THEN failed[i] + 1 ELSE failed[i]
    <3>1. failed \in [Ids -> 0 .. MaxAttempts] /\ i \in Ids
      BY <2>1 DEF TypeOK
    <3>2. failed[i] \in 0 .. MaxAttempts
      BY <3>1
    <3>3. n \in 0 .. MaxAttempts
      BY <3>2, CountAssumption
    <3>4. failed' = [failed EXCEPT ![i] = n]
      BY <1>5 DEF SendFails
    <3> QED
      BY <3>1, <3>3, <3>4
  <2>4. todo' \in Seq(Entries)
    BY <1>5, SendingTypes DEF SendFails
  <2> QED
    BY <1>5, <2>2, <2>3, <2>4 DEF SendFails, TypeOK, ingestVars
<1>6. CASE WriteAll
  BY <1>6, EmptyEntries DEF WriteAll, EndFlush, TypeOK, ingestVars, historyVars
<1>7. CASE FlushFails
  BY <1>7, EmptyEntries DEF FlushFails, EndFlush, TypeOK, ingestVars, historyVars
<1>8. CASE Crash
  BY <1>8, EmptyEntries DEF Crash, EndFlush, TypeOK, historyVars
<1> QED
  BY <1>1, <1>2, <1>3, <1>4, <1>5, <1>6, <1>7, <1>8 DEF FlushStep

(* Every step keeps the types. *)
LEMMA NextType == TypeOK /\ [Next]_vars => TypeOK'
<1> SUFFICES ASSUME TypeOK, [Next]_vars PROVE TypeOK'
  OBVIOUS
<1>1. CASE UNCHANGED vars
  BY <1>1 DEF TypeOK, vars, ingestVars, flushVars, historyVars
<1> QED
  BY <1>1, IngestTypes, FlushTypes DEF Next

-----------------------------------------------------------------------------
(* Retries, and what happens to a detection in the file *)

(* Attempts stay counted when sends are added. *)
LEMMA CountedStays ==
  ASSUME TypeOK, NEW s \in Seq(Entries), Counted(s),
         UNCHANGED failed \/ SendFails
  PROVE  \A k \in DOMAIN s : s[k].attempts <= failed'[s[k].id]
<1> SUFFICES ASSUME NEW k \in DOMAIN s PROVE s[k].attempts <= failed'[s[k].id]
  OBVIOUS
<1>1. s[k] \in Entries /\ s[k].id \in Ids /\ s[k].attempts \in 0 .. MaxAttempts
      /\ s[k].attempts <= failed[s[k].id]
  <2>1. k \in 1 .. Len(s)
    BY LenProperties
  <2>2. s[k] \in Entries
    BY <2>1, ElementOfSeq
  <2>3. s[k].id \in Ids /\ s[k].attempts \in 0 .. MaxAttempts
    BY <2>2 DEF Entries
  <2> QED
    BY <2>2, <2>3 DEF Counted
<1>2. failed[s[k].id] \in 0 .. MaxAttempts
  BY <1>1 DEF TypeOK
<1>3. CASE SendFails
  <2>1. failed'[s[k].id] \in {failed[s[k].id], failed[s[k].id] + 1}
    BY <1>1, <1>3 DEF SendFails, TypeOK
  <2> QED
    BY <1>1, <1>2, <2>1, CountAssumption
<1> QED
  BY <1>1, <1>3

(* An entry with counted attempts may be appended. *)
LEMMA CountedAppend ==
  ASSUME TypeOK, NEW s \in Seq(Entries), NEW e \in Entries,
         \A k \in DOMAIN s : s[k].attempts <= failed'[s[k].id],
         e.attempts <= failed'[e.id]
  PROVE  LET t == Append(s, e)
         IN \A k \in DOMAIN t : t[k].attempts <= failed'[t[k].id]
<1> DEFINE t == Append(s, e)
<1> SUFFICES ASSUME NEW k \in DOMAIN t PROVE t[k].attempts <= failed'[t[k].id]
  OBVIOUS
<1>1. CASE k \in DOMAIN s
  BY <1>1, AppendEntries
<1>2. CASE k = Len(s) + 1
  BY <1>2, AppendEntries
<1> QED
  BY <1>1, <1>2, AppendEntries

(* What is left of counted entries is counted. *)
LEMMA CountedTail ==
  ASSUME TypeOK, Sending, Counted(todo), UNCHANGED failed \/ SendFails
  PROVE  LET t == Tail(todo)
         IN \A k \in DOMAIN t : t[k].attempts <= failed'[t[k].id]
<1> DEFINE t == Tail(todo)
<1> SUFFICES ASSUME NEW k \in DOMAIN t PROVE t[k].attempts <= failed'[t[k].id]
  OBVIOUS
<1>1. k + 1 \in DOMAIN todo /\ t[k] = todo[k + 1]
  BY SendingTypes, TailEntries
<1> QED
  BY <1>1, CountedStays, SendingTypes

(* The invariant holds at the start. *)
LEMMA InitIInv == Init => IInv
<1> SUFFICES ASSUME Init PROVE IInv
  OBVIOUS
<1>1. AttemptsWereMade
  BY EmptyEntries DEF Init, AttemptsWereMade
<1>2. DroppedAfterRetries /\ InHand /\ Accounted
  BY DEF Init, DroppedAfterRetries, InHand, Accounted
<1> QED
  BY <1>1, <1>2, InitType DEF IInv

(* The steps of a detection that has just arrived. *)
LEMMA IngestSteps ==
  ASSUME IInv, Arrive \/ Forwarded \/ ForwardFails \/ Enqueue \/ EnqueueFails
  PROVE  IInv'
<1>1. TypeOK' /\ TypeOK
  BY IngestTypes DEF IInv
<1>2. UNCHANGED <<flushVars, dropped, failed>>
  BY DEF Arrive, Forwarded, ForwardFails, Enqueue, EnqueueFails, historyVars
<1>3. DroppedAfterRetries'
  BY <1>2 DEF IInv, DroppedAfterRetries
<1>4. Counted(todo)' /\ Counted(remaining)'
  BY <1>2 DEF IInv, AttemptsWereMade, Counted, flushVars
<1>5. CASE Enqueue
  <2> DEFINE e == [id |-> arrived, attempts |-> 0]
  <2>1. e \in Entries /\ e.id \in Ids /\ file \in Seq(Entries)
    BY <1>1, <1>5, CountAssumption DEF Enqueue, TypeOK, Entries
  <2>2. file' = Append(file, e) /\ enqueued' = enqueued \cup {e.id}
        /\ UNCHANGED acknowledged
    BY <1>5 DEF Enqueue
  <2>3. Counted(file)'
    <3>1. e.attempts <= failed'[e.id]
      BY <1>1, <2>1, CountAssumption DEF TypeOK
    <3>2. \A k \in DOMAIN file : file[k].attempts <= failed'[file[k].id]
      BY <1>2 DEF IInv, AttemptsWereMade, Counted
    <3> QED
      BY <1>1, <2>1, <2>2, <3>1, <3>2, CountedAppend DEF Counted
  <2>4. InHand'
    <3>1. flush' = "send" => overtaken' = overtaken \cup {e.id}
      BY <1>5, <1>2 DEF Enqueue, flushVars
    <3>2. overtaken \subseteq overtaken'
      BY <1>5 DEF Enqueue
    <3> QED
      BY <1>2, <2>2, <3>1, <3>2 DEF IInv, InHand, flushVars, IdsOf
  <2>5. Accounted'
    <3>1. IdsOf(file)' = IdsOf(file) \cup {e.id}
      BY <2>1, <2>2, AppendIds DEF IdsOf
    <3>2. overtaken \subseteq overtaken'
      BY <1>5 DEF Enqueue
    <3> QED
      BY <1>2, <2>2, <3>1, <3>2 DEF IInv, Accounted
  <2> QED
    BY <1>1, <1>3, <1>4, <2>3, <2>4, <2>5 DEF IInv, AttemptsWereMade
<1>6. CASE ~Enqueue
  <2>1. UNCHANGED <<file, enqueued, overtaken>> /\ acknowledged \subseteq acknowledged'
    BY <1>6 DEF Arrive, Forwarded, ForwardFails, EnqueueFails, historyVars
  <2>2. Counted(file)'
    BY <1>2, <2>1 DEF IInv, AttemptsWereMade, Counted
  <2>3. InHand' /\ Accounted'
    BY <1>2, <2>1 DEF IInv, InHand, Accounted, flushVars, IdsOf
  <2> QED
    BY <1>1, <1>3, <1>4, <2>2, <2>3 DEF IInv, AttemptsWereMade
<1> QED
  BY <1>5, <1>6

(* A flush that begins, or ends without having touched the file. *)
LEMMA FlushEdges ==
  ASSUME IInv, StartFlush \/ ReadAll \/ FlushFails \/ Crash
  PROVE  IInv'
<1>1. TypeOK'
  BY FlushTypes DEF IInv, FlushStep
<1>2. UNCHANGED <<file, historyVars>>
  BY DEF StartFlush, ReadAll, FlushFails, Crash
<1>3. /\ todo' \in {<<>>, todo, file} /\ remaining' \in {<<>>, remaining}
      /\ flush' = "send" => todo' = file
  BY DEF StartFlush, ReadAll, FlushFails, Crash, EndFlush
<1>4. AttemptsWereMade'
  BY <1>2, <1>3 DEF IInv, AttemptsWereMade, Counted, historyVars
<1>5. DroppedAfterRetries' /\ Accounted'
  BY <1>2 DEF IInv, DroppedAfterRetries, Accounted, IdsOf, historyVars
<1>6. InHand'
  BY <1>2, <1>3 DEF IInv, InHand, Accounted, IdsOf, historyVars
<1> QED
  BY <1>1, <1>4, <1>5, <1>6 DEF IInv

(* A flush that settles the entry at hand. *)
LEMMA SettleSteps ==
  ASSUME IInv, DropEntry \/ SendAccepted \/ SendFails
  PROVE  IInv'
<1> DEFINE e == Head(todo)
<1>1. TypeOK /\ TypeOK' /\ Sending
  BY FlushTypes DEF IInv, FlushStep, DropEntry, SendAccepted, SendFails
<1>2. /\ todo' = Tail(todo) /\ UNCHANGED <<file, flush, enqueued, overtaken>>
      /\ UNCHANGED failed \/ SendFails
      /\ acknowledged \subseteq acknowledged' /\ dropped \subseteq dropped'
  BY DEF DropEntry, SendAccepted, SendFails
<1>3. e \in Entries /\ e.id \in Ids /\ e.attempts \in 0 .. MaxAttempts
      /\ e.attempts <= failed[e.id] /\ failed[e.id] \in 0 .. MaxAttempts
      /\ IdsOf(todo) = {e.id} \cup IdsOf(Tail(todo))
  <2>1. e = todo[1] /\ 1 \in DOMAIN todo
    BY <1>1, SendingTypes, TailEntries
  <2>2. e.attempts <= failed[e.id]
    BY <2>1 DEF IInv, AttemptsWereMade, Counted
  <2> QED
    BY <1>1, <2>2, SendingTypes, TailIds DEF TypeOK
<1>4. Counted(file)' /\ Counted(todo)'
  <2>1. \A k \in DOMAIN file : file[k].attempts <= failed'[file[k].id]
    BY <1>1, <1>2, CountedStays DEF IInv, AttemptsWereMade, TypeOK
  <2>2. Counted(todo)'
    BY <1>1, <1>2, CountedTail DEF IInv, AttemptsWereMade, Counted
  <2> QED
    BY <1>2, <2>1, <2>2 DEF Counted
<1>5. \A k \in DOMAIN remaining : remaining[k].attempts <= failed'[remaining[k].id]
  BY <1>1, <1>2, CountedStays DEF IInv, AttemptsWereMade, TypeOK
<1>6. CASE SendFails
  <2>1. e.attempts < MaxAttempts
    BY <1>3, <1>6, CountAssumption DEF SendFails, Exhausted
  <2>2. Retried(e) \in Entries /\ Retried(e).id = e.id
        /\ Retried(e).attempts = e.attempts + 1
    BY <1>3, <2>1, RetriedType
  <2>3. e.attempts + 1 <= failed'[e.id]
    BY <1>1, <1>3, <1>6, <2>1, CountAssumption DEF SendFails, TypeOK
  <2>4. remaining' = Append(remaining, Retried(e)) /\ remaining \in Seq(Entries)
    BY <1>1, <1>6 DEF SendFails, TypeOK
  <2>5. Counted(remaining)'
    BY <1>1, <1>5, <2>2, <2>3, <2>4, CountedAppend DEF Counted
  <2>6. IdsOf(remaining)' = IdsOf(remaining) \cup {e.id}
    BY <2>2, <2>4, AppendIds DEF IdsOf
  <2>7. InHand'
    <3>1. IdsOf(todo)' = IdsOf(Tail(todo))
      BY <1>2 DEF IdsOf
    <3> QED
      BY <1>2, <1>3, <2>6, <3>1 DEF IInv, InHand
  <2>8. Accounted'
    BY <1>2 DEF IInv, Accounted, IdsOf
  <2>9. DroppedAfterRetries'
    <3> SUFFICES ASSUME NEW i \in dropped PROVE failed'[i] = MaxAttempts
      BY <1>6 DEF SendFails, DroppedAfterRetries
    <3>1. i \in Ids /\ failed[i] = MaxAttempts
      BY <1>1 DEF IInv, TypeOK, DroppedAfterRetries
    <3> QED
      BY <1>1, <1>6, <3>1, CountAssumption DEF SendFails, TypeOK
  <2> QED
    BY <1>1, <1>4, <2>5, <2>7, <2>8, <2>9 DEF IInv, AttemptsWereMade
<1>7. CASE DropEntry \/ SendAccepted
  <2>1. UNCHANGED <<remaining, failed>>
        /\ e.id \in dropped' \cup acknowledged'
    BY <1>7 DEF DropEntry, SendAccepted
  <2>2. Counted(remaining)'
    BY <1>5, <2>1 DEF Counted
  <2>3. InHand'
    <3>1. IdsOf(todo)' = IdsOf(Tail(todo)) /\ IdsOf(remaining)' = IdsOf(remaining)
      BY <1>2, <2>1 DEF IdsOf
    <3> QED
      BY <1>2, <1>3, <2>1, <3>1 DEF IInv, InHand
  <2>4. Accounted'
    BY <1>2 DEF IInv, Accounted, IdsOf
  <2>5. DroppedAfterRetries'
    <3>1. CASE DropEntry
      <4>1. failed[e.id] = MaxAttempts
        BY <1>3, <3>1, CountAssumption DEF DropEntry, Exhausted
      <4> QED
        BY <2>1, <3>1, <4>1 DEF DropEntry, IInv, DroppedAfterRetries
    <3>2. CASE SendAccepted
      BY <3>2 DEF SendAccepted, IInv, DroppedAfterRetries
    <3> QED
      BY <1>7, <3>1, <3>2
  <2> QED
    BY <1>1, <1>4, <2>2, <2>3, <2>4, <2>5 DEF IInv, AttemptsWereMade
<1> QED
  BY <1>6, <1>7

(* The rewrite of the file drops only what the flush settled. *)
LEMMA WriteStep ==
  ASSUME IInv, WriteAll
  PROVE  IInv'
<1>1. TypeOK'
  BY FlushTypes DEF IInv, FlushStep
<1>2. flush = "send" /\ todo = <<>> /\ file' = remaining /\ EndFlush
      /\ UNCHANGED historyVars
  BY DEF WriteAll
<1>3. AttemptsWereMade'
  BY <1>2 DEF IInv, AttemptsWereMade, EndFlush, Counted, historyVars
<1>4. Accounted'
  <2>1. IdsOf(todo) = {}
    BY <1>2, EmptyEntries
  <2>2. IdsOf(file)' = IdsOf(remaining)
    BY <1>2 DEF IdsOf
  <2> QED
    BY <1>2, <2>1, <2>2 DEF IInv, InHand, Accounted, historyVars
<1>5. InHand' /\ DroppedAfterRetries'
  BY <1>2 DEF IInv, InHand, DroppedAfterRetries, EndFlush, historyVars
<1> QED
  BY <1>1, <1>3, <1>4, <1>5 DEF IInv

(* Every step preserves the invariant. *)
LEMMA NextIInv == IInv /\ [Next]_vars => IInv'
<1> SUFFICES ASSUME IInv, [Next]_vars PROVE IInv'
  OBVIOUS
<1>1. CASE UNCHANGED vars
  <2>1. TypeOK'
    BY <1>1, NextType DEF IInv
  <2>2. AttemptsWereMade' /\ DroppedAfterRetries' /\ InHand' /\ Accounted'
    BY <1>1 DEF IInv, AttemptsWereMade, DroppedAfterRetries, InHand, Accounted, Counted,
                IdsOf, vars, flushVars, historyVars
  <2> QED
    BY <2>1, <2>2 DEF IInv
<1> QED
  BY <1>1, IngestSteps, FlushEdges, SettleSteps, WriteStep DEF Next, FlushStep

-----------------------------------------------------------------------------
(* The order of the queue *)

Sorted(s) == \A j, k \in DOMAIN s : j < k => s[j].id < s[k].id
AllBefore(s, t) == \A j \in DOMAIN s, k \in DOMAIN t : s[j].id < t[k].id

(* An entry stands for a detection that arrived and is not in hand. *)
Queued(s) ==
  \A k \in DOMAIN s : s[k].id <= arrived /\ (ingest # "idle" => s[k].id # arrived)

(* What a flush keeps lies before what it has not sent yet. *)
InOrder ==
  /\ Sorted(file) /\ Sorted(todo) /\ Sorted(remaining)
  /\ AllBefore(remaining, todo)
  /\ Queued(file) /\ Queued(todo) /\ Queued(remaining)

(* The copies of a flush that is over are empty. *)
LEMMA EmptyInOrder ==
  /\ Sorted(<<>>) /\ Queued(<<>>)
  /\ \A t \in Seq(Entries) : AllBefore(<<>>, t) /\ AllBefore(t, <<>>)
BY EmptySeq DEF Sorted, Queued, AllBefore

(* An entry with a later detection may be appended. *)
LEMMA SortedAppend ==
  ASSUME NEW s \in Seq(Entries), NEW e \in Entries, Sorted(s),
         \A k \in DOMAIN s : s[k].id < e.id
  PROVE  Sorted(Append(s, e))
<1> SUFFICES ASSUME NEW j \in DOMAIN Append(s, e), NEW k \in DOMAIN Append(s, e), j < k
             PROVE  Append(s, e)[j].id < Append(s, e)[k].id
  BY DEF Sorted
<1>1. j \in DOMAIN s /\ Append(s, e)[j] = s[j]
  BY AppendEntries
<1>2. CASE k \in DOMAIN s
  BY <1>1, <1>2, AppendEntries DEF Sorted
<1>3. CASE k = Len(s) + 1
  BY <1>1, <1>3, AppendEntries
<1>. QED BY <1>2, <1>3, AppendEntries

(* The first entry of a sorted sequence lies before the others. *)
LEMMA SortedTail ==
  ASSUME NEW s \in Seq(Entries), s # <<>>, Sorted(s)
  PROVE  /\ Sorted(Tail(s))
         /\ \A k \in DOMAIN Tail(s) : Head(s).id < Tail(s)[k].id
<1>1. ASSUME NEW j \in DOMAIN Tail(s), NEW k \in DOMAIN Tail(s), j < k
      PROVE  Tail(s)[j].id < Tail(s)[k].id
  <2>1. /\ j + 1 \in DOMAIN s /\ Tail(s)[j] = s[j + 1] /\ j \in Nat
        /\ k + 1 \in DOMAIN s /\ Tail(s)[k] = s[k + 1] /\ k \in Nat
    BY TailEntries
  <2>. QED BY <1>1, <2>1 DEF Sorted
<1>2. ASSUME NEW k \in DOMAIN Tail(s)
      PROVE  Head(s).id < Tail(s)[k].id
  <2>1. /\ k + 1 \in DOMAIN s /\ Tail(s)[k] = s[k + 1] /\ k \in Nat
        /\ Head(s) = s[1] /\ 1 \in DOMAIN s
    BY TailEntries
  <2>2. k # 0
    BY <1>2, TailEntries, LenProperties
  <2>. QED BY <2>1, <2>2 DEF Sorted
<1>. QED BY <1>1, <1>2 DEF Sorted

(* The entries of a sequence stand for detections. *)
LEMMA EntryIds ==
  ASSUME NEW s \in Seq(Entries), NEW k \in DOMAIN s
  PROVE  s[k] \in Entries /\ s[k].id \in Nat
<1>1. s[k] \in Entries
  BY LenProperties, ElementOfSeq
<1>. QED BY <1>1 DEF Entries, Ids

(* An empty queue is in order. *)
LEMMA InitOrder == Init => InOrder
BY EmptyInOrder, EmptySeq DEF Init, InOrder

(* Detections are appended as they arrive, one at a time. *)
LEMMA IngestOrder ==
  ASSUME TypeOK, InOrder, Arrive \/ Forwarded \/ ForwardFails \/ Enqueue \/ EnqueueFails
  PROVE  InOrder'
<1>1. UNCHANGED <<todo, remaining>> /\ arrived' \in Nat /\ arrived \in Nat
  BY DEF TypeOK, Arrive, Forwarded, ForwardFails, Enqueue, EnqueueFails, flushVars
<1>2. /\ arrived' = arrived /\ (ingest' # "idle" => ingest # "idle")
      \/ arrived' = arrived + 1
  BY DEF Arrive, Forwarded, ForwardFails, Enqueue, EnqueueFails
<1>3. ASSUME NEW s \in Seq(Entries), Queued(s)
      PROVE  \A k \in DOMAIN s : s[k].id <= arrived' /\ (ingest' # "idle" => s[k].id # arrived')
  <2> SUFFICES ASSUME NEW k \in DOMAIN s
               PROVE  s[k].id <= arrived' /\ (ingest' # "idle" => s[k].id # arrived')
    OBVIOUS
  <2>1. s[k].id \in Nat /\ s[k].id <= arrived /\ (ingest # "idle" => s[k].id # arrived)
    BY <1>3, EntryIds DEF Queued
  <2>. QED BY <1>1, <1>2, <2>1
<1>4. CASE Enqueue
  <2> DEFINE e == [id |-> arrived, attempts |-> 0]
  <2>1. e \in Entries /\ e.id = arrived /\ file' = Append(file, e) /\ file \in Seq(Entries)
    BY <1>4, CountAssumption DEF Enqueue, TypeOK, Entries
  <2>2. \A k \in DOMAIN file : file[k].id < e.id
    <3> SUFFICES ASSUME NEW k \in DOMAIN file PROVE file[k].id < arrived
      BY <2>1
    <3>1. file[k].id \in Nat
      BY <2>1, EntryIds
    <3>. QED BY <1>1, <1>4, <3>1 DEF InOrder, Queued, Enqueue
  <2>3. Sorted(file')
    BY <2>1, <2>2, SortedAppend DEF InOrder
  <2>4. Queued(file)' /\ arrived' = arrived /\ ingest' = "idle"
    <3>1. arrived' = arrived /\ ingest' = "idle"
      BY <1>4 DEF Enqueue
    <3>2. ASSUME NEW k \in DOMAIN Append(file, e)
          PROVE  Append(file, e)[k].id <= arrived
      <4>1. CASE k \in DOMAIN file
        BY <2>1, <2>2, <4>1, AppendEntries, <1>1 DEF InOrder, Queued
      <4>2. CASE k = Len(file) + 1
        BY <2>1, <4>2, AppendEntries, <1>1
      <4>. QED BY <2>1, <4>1, <4>2, AppendEntries
    <3>. QED BY <2>1, <3>1, <3>2 DEF Queued
  <2>. QED BY <1>1, <1>3, <2>3, <2>4 DEF InOrder, TypeOK, Queued
<1>5. CASE Arrive \/ Forwarded \/ ForwardFails \/ EnqueueFails
  <2>1. UNCHANGED file
    BY <1>5 DEF Arrive, Forwarded, ForwardFails, EnqueueFails
  <2>. QED BY <1>1, <1>3, <2>1 DEF InOrder, TypeOK, Queued
<1>. QED BY <1>4, <1>5

(* A flush takes the entries from the front and puts those it keeps at the end. *)
LEMMA FlushOrder ==
  ASSUME TypeOK, InOrder, StartFlush \/ FlushStep
  PROVE  InOrder'
<1>1. UNCHANGED ingestVars
  BY DEF StartFlush, FlushStep, ReadAll, DropEntry, SendAccepted, SendFails, WriteAll,
         FlushFails
<1>2. CASE StartFlush \/ ReadAll \/ WriteAll \/ FlushFails
  <2>1. /\ file' \in {file, remaining} /\ todo' \in {todo, file, <<>>}
        /\ remaining' = <<>> \/ (todo' = todo /\ remaining' = remaining)
    BY <1>2 DEF StartFlush, ReadAll, WriteAll, FlushFails, EndFlush
  <2>2. Sorted(file') /\ Sorted(todo') /\ Sorted(remaining')
    BY <2>1, EmptyInOrder DEF InOrder
  <2>4. AllBefore(remaining', todo')
    <3>1. todo' \in Seq(Entries)
      BY <2>1, EmptyEntries DEF TypeOK
    <3>2. AllBefore(remaining, todo)
      BY DEF InOrder
    <3>. QED BY <2>1, <3>1, <3>2, EmptyInOrder
  <2>3. Queued(file)' /\ Queued(todo)' /\ Queued(remaining)'
    BY <1>1, <2>1, EmptySeq DEF InOrder, Queued, ingestVars
  <2>. QED BY <2>2, <2>3, <2>4 DEF InOrder, Sorted, AllBefore
<1>3. CASE DropEntry \/ SendAccepted \/ SendFails
  <2>1. Sending /\ todo' = Tail(todo) /\ UNCHANGED file
    BY <1>3 DEF DropEntry, SendAccepted, SendFails
  <2>2. /\ todo \in Seq(Entries) /\ todo # <<>> /\ Tail(todo) \in Seq(Entries)
        /\ Head(todo) \in Entries /\ remaining \in Seq(Entries)
    BY <2>1, SendingTypes DEF TypeOK
  <2>3. /\ Sorted(Tail(todo))
        /\ \A k \in DOMAIN Tail(todo) : Head(todo).id < Tail(todo)[k].id
    BY <2>2, SortedTail DEF InOrder
  <2>4. /\ Queued(Tail(todo)) /\ AllBefore(remaining, Tail(todo))
        /\ Head(todo).id <= arrived /\ (ingest # "idle" => Head(todo).id # arrived)
        /\ \A k \in DOMAIN remaining : remaining[k].id < Head(todo).id
    BY <2>2, TailEntries DEF InOrder, Queued, AllBefore
  <2>5. CASE DropEntry \/ SendAccepted
    <3>1. UNCHANGED remaining
      BY <2>5 DEF DropEntry, SendAccepted
    <3>. QED BY <1>1, <2>1, <2>3, <2>4, <3>1 DEF InOrder, Queued, ingestVars
  <2>6. CASE SendFails
    <3> DEFINE e == Retried(Head(todo))
    <3>1. e \in Entries /\ e.id = Head(todo).id
      <4>1. Head(todo).attempts < MaxAttempts
        BY <2>1, <2>6, SendingTypes, CountAssumption DEF SendFails, Exhausted
      <4>. QED BY <2>2, <4>1, RetriedType
    <3>2. remaining' = Append(remaining, e)
      BY <2>6 DEF SendFails
    <3>3. Sorted(Append(remaining, e))
      BY <2>2, <2>4, <3>1, SortedAppend DEF InOrder
    <3> HIDE DEF e
    <3>4. AllBefore(Append(remaining, e), Tail(todo))
      <4> SUFFICES ASSUME NEW j \in DOMAIN Append(remaining, e), NEW k \in DOMAIN Tail(todo)
                   PROVE  Append(remaining, e)[j].id < Tail(todo)[k].id
        BY DEF AllBefore
      <4>1. CASE j \in DOMAIN remaining
        BY <2>2, <2>4, <3>1, <4>1, AppendEntries DEF AllBefore
      <4>2. CASE j = Len(remaining) + 1
        BY <2>2, <2>3, <3>1, <4>2, AppendEntries
      <4>. QED BY <2>2, <3>1, <4>1, <4>2, AppendEntries
    <3>5. Queued(Append(remaining, e))
      <4> SUFFICES ASSUME NEW j \in DOMAIN Append(remaining, e)
                   PROVE  /\ Append(remaining, e)[j].id <= arrived
                          /\ ingest # "idle" => Append(remaining, e)[j].id # arrived
        BY DEF Queued
      <4>1. CASE j \in DOMAIN remaining
        BY <2>2, <3>1, <4>1, AppendEntries DEF InOrder, Queued
      <4>2. CASE j = Len(remaining) + 1
        BY <2>2, <2>4, <3>1, <4>2, AppendEntries
      <4>. QED BY <2>2, <3>1, <4>1, <4>2, AppendEntries
    <3>. QED BY <1>1, <2>1, <2>3, <2>4, <3>2, <3>3, <3>4, <3>5 DEF InOrder, Queued, ingestVars
  <2>. QED BY <1>3, <2>5, <2>6
<1>. QED BY <1>2, <1>3 DEF FlushStep

(* Every step keeps the queue in order. *)
LEMMA NextOrder == TypeOK /\ InOrder /\ [Next]_vars => InOrder'
<1> SUFFICES ASSUME TypeOK, InOrder, [Next]_vars PROVE InOrder'
  OBVIOUS
<1>1. CASE Crash
  <2>1. file' = file /\ arrived' = arrived /\ ingest' = "idle" /\ todo' = <<>> /\ remaining' = <<>>
    BY <1>1 DEF Crash, EndFlush
  <2>2. Queued(file)' /\ Queued(todo)' /\ Queued(remaining)'
    BY <2>1, EmptySeq DEF InOrder, Queued
  <2>. QED BY <2>1, <2>2, EmptyInOrder, EmptyEntries DEF InOrder, Sorted, AllBefore
<1>2. CASE UNCHANGED vars
  BY <1>2 DEF vars, ingestVars, flushVars, InOrder, Queued
<1>. QED BY <1>1, <1>2, IngestOrder, FlushOrder DEF Next

-----------------------------------------------------------------------------
(* The outbox *)

(* Every variable of the bridge's outbox keeps its type. *)
THEOREM TypeCorrect == Spec => []TypeOK
BY InitType, NextType, PTL DEF Spec

(* Outbox.flush: only MAX_ATTEMPTS failed sends make it give a detection up. *)
THEOREM NoEarlyDrop == Spec => []DroppedAfterRetries
<1>1. IInv => DroppedAfterRetries
  BY DEF IInv
<1> QED
  BY InitIInv, NextIInv, <1>1, PTL DEF Spec

(* Outbox.flush: restarts and failures in the middle of it lose nothing that *)
(* was in the file when it began.                                            *)
THEOREM QueueAccounted == Spec => []Accounted
<1>1. IInv => Accounted
  BY DEF IInv
<1> QED
  BY InitIInv, NextIInv, <1>1, PTL DEF Spec

(* Outbox.flush and Outbox.enqueue: through appends, rewrites, failures and  *)
(* restarts the file holds its entries in order of arrival, each one once.   *)
THEOREM QueueOrdered == Spec => []QueueInOrder
<1>1. InOrder => QueueInOrder
  BY DEF InOrder, Sorted, QueueInOrder
<1> QED
  BY TypeCorrect, InitOrder, NextOrder, <1>1, PTL DEF Spec

-----------------------------------------------------------------------------
(* Presence sessions, and the outbox in the bridge *)

PresenceTyped ==
  /\ frame \in Nat
  /\ sessions \in [Debounced -> Nat] /\ busy \in [Debounced -> Nat]
  /\ opened \in [Debounced -> Nat]
  /\ events \subseteq Mappings /\ muted \subseteq Debounced

(* The last activity of a session lags behind the latest motion by no more   *)
(* than messages are late.                                                   *)
NearlyCurrent ==
  \A m \in Debounced :
    /\ busy[m] <= frame
    /\ busy[m] # 0 => sessions[m] # 0 /\ busy[m] <= sessions[m] + Late

PInv == PresenceTyped /\ NearlyCurrent /\ SuppressedIsReported

-----------------------------------------------------------------------------
(* Translation *)

(* The step of a message, with its targets and its frame. *)
LEMMA MessageIs ==
  ASSUME Message
  PROVE  \E targets \in SUBSET Mappings, at \in Frames :
           targets # {} /\ at + Late >= frame /\ Translate(targets, at)
<1>1. \A targets \in Motions : targets \subseteq Mappings /\ targets # {}
  BY DEF Motions, Targets
<1>. QED BY <1>1 DEF Message

(* A message opens sessions and prolongs others; it takes no detection from *)
(* another.                                                                  *)
LEMMA TranslateInv ==
  ASSUME PInv, NEW targets \in SUBSET Mappings, NEW at \in Frames,
         at + Late >= frame, Translate(targets, at)
  PROVE  PInv'
<1> DEFINE started == {m \in targets : Opens(m, at)}
<1>1. /\ events = {} /\ frame' = Later(frame, at)
      /\ sessions' = Activity(targets, at) /\ events' = started
      /\ busy' = [m \in Debounced |-> IF m \in targets THEN Later(busy[m], at) ELSE busy[m]]
      /\ muted' = muted \ started
      /\ UNCHANGED <<arrived, ingest, acknowledged, enqueued, opened>>
  BY DEF Translate, vars, ingestVars, historyVars
<1>2. at \in Nat \ {0} /\ Late \in Nat
  BY FramesAssumption DEF Frames
<1>3. PresenceTyped'
  BY <1>1, <1>2 DEF PInv, PresenceTyped, Activity, Later
<1>4. NearlyCurrent'
  <2> SUFFICES ASSUME NEW m \in Debounced
               PROVE  /\ busy'[m] <= frame'
                      /\ busy'[m] # 0 => sessions'[m] # 0 /\ busy'[m] <= sessions'[m] + Late
    BY DEF NearlyCurrent
  <2>1. /\ busy[m] \in Nat /\ sessions[m] \in Nat /\ frame \in Nat /\ busy[m] <= frame
        /\ busy[m] # 0 => sessions[m] # 0 /\ busy[m] <= sessions[m] + Late
    BY DEF PInv, PresenceTyped, NearlyCurrent
  <2>2. CASE m \in targets
    <3>1. busy'[m] = Later(busy[m], at) /\ sessions'[m] = at
      BY <1>1, <2>2 DEF Activity
    <3>. QED BY <1>1, <1>2, <2>1, <3>1 DEF Later
  <2>3. CASE m \notin targets
    <3>1. busy'[m] = busy[m] /\ sessions'[m] = sessions[m]
      BY <1>1, <2>3 DEF Activity
    <3>. QED BY <1>1, <1>2, <2>1, <3>1 DEF Later
  <2>. QED BY <2>2, <2>3
<1>5. SuppressedIsReported'
  <2> SUFFICES ASSUME NEW m \in Debounced, sessions'[m] # 0, m \notin muted'
               PROVE  \/ m \in events'
                      \/ opened[m] = arrived /\ ingest # "idle"
                      \/ opened[m] \in acknowledged \cup enqueued
    BY <1>1 DEF SuppressedIsReported
  <2>1. CASE m \in started
    BY <1>1, <2>1
  <2>2. CASE m \notin started
    <3>1. sessions[m] # 0
      BY <1>1, <2>2 DEF Activity, Opens
    <3>2. m \notin muted /\ m \notin events
      BY <1>1, <2>2
    <3>. QED BY <3>1, <3>2 DEF PInv, SuppressedIsReported
  <2>. QED BY <2>1, <2>2
<1>. QED BY <1>3, <1>4, <1>5 DEF PInv

-----------------------------------------------------------------------------
(* Forwarding *)

(* The next detection is taken in hand when no other one is. *)
LEMMA NextEventInv ==
  ASSUME TypeOK, PInv, NEW m \in Mappings, NextEvent(m)
  PROVE  PInv'
<1>1. /\ m \in events /\ events' = events \ {m}
      /\ ingest = "idle" /\ ingest' = "forward" /\ arrived' \in Nat
      /\ opened' = IF m.debounced THEN [opened EXCEPT ![m] = arrived'] ELSE opened
      /\ UNCHANGED <<frame, sessions, busy, muted, acknowledged, enqueued>>
  BY DEF NextEvent, Arrive, historyVars, TypeOK
<1>2. (PresenceTyped /\ NearlyCurrent)'
  BY <1>1 DEF PInv, PresenceTyped, NearlyCurrent
<1>3. ASSUME NEW u \in Debounced, sessions'[u] # 0, u \notin muted'
      PROVE  \/ u \in events'
             \/ opened'[u] = arrived' /\ ingest' # "idle"
             \/ opened'[u] \in acknowledged' \cup enqueued'
  <2>1. CASE u = m
    BY <1>1, <2>1 DEF PInv, PresenceTyped, Debounced
  <2>2. CASE u # m
    <3>1. opened'[u] = opened[u]
      BY <1>1, <2>2 DEF PInv, PresenceTyped
    <3>. QED BY <1>1, <1>3, <2>2, <3>1 DEF PInv, SuppressedIsReported
  <2>. QED BY <2>1, <2>2
<1>. QED BY <1>2, <1>3 DEF PInv, SuppressedIsReported

(* Sent, refused or appended, a detection stays accounted for. *)
LEMMA SettlesInv ==
  ASSUME PInv, Settles
  PROVE  PInv'
<1>1. UNCHANGED presenceVars /\ UNCHANGED arrived
  BY DEF Settles, Forwarded, ForwardFails, Enqueue
<1>2. /\ acknowledged \subseteq acknowledged' /\ enqueued \subseteq enqueued'
      /\ ingest' # "idle" \/ arrived \in acknowledged' \cup enqueued'
  BY DEF Settles, Forwarded, ForwardFails, Enqueue, historyVars
<1>. QED BY <1>1, <1>2
         DEF presenceVars, PInv, PresenceTyped, NearlyCurrent, SuppressedIsReported

(* The detections that a failed append loses are muted. *)
LEMMA LeavesLoopInv ==
  ASSUME PInv, LeavesLoop
  PROVE  PInv'
<1>1. /\ events' = {} /\ muted' = muted \cup {m \in Debounced : m \in events \/ opened[m] = arrived}
      /\ UNCHANGED <<frame, sessions, opened, busy, arrived, acknowledged, enqueued>>
  BY DEF LeavesLoop, EnqueueFails, historyVars
<1>. QED BY <1>1 DEF PInv, PresenceTyped, NearlyCurrent, SuppressedIsReported

(* A flush only adds to what was acknowledged. *)
LEMMA OutboxInv ==
  ASSUME PInv, Outbox
  PROVE  PInv'
<1>1. UNCHANGED presenceVars /\ UNCHANGED ingestVars
  BY DEF Outbox, StartFlush, FlushStep, ReadAll, DropEntry, SendAccepted, SendFails,
         WriteAll, FlushFails
<1>2. acknowledged \subseteq acknowledged' /\ UNCHANGED enqueued
  BY DEF Outbox, StartFlush, FlushStep, ReadAll, DropEntry, SendAccepted, SendFails,
         WriteAll, FlushFails, historyVars
<1>. QED BY <1>1, <1>2
         DEF presenceVars, ingestVars, PInv, PresenceTyped, NearlyCurrent,
             SuppressedIsReported

(* A restart forgets the sessions. *)
LEMMA RestartInv ==
  ASSUME PInv, Restart
  PROVE  PInv'
BY DEF Restart, Quiet, PInv, PresenceTyped, NearlyCurrent, SuppressedIsReported

-----------------------------------------------------------------------------
(* The bridge *)

(* What the bridge does is, for the outbox, a step of it or nothing. *)
LEMMA StepRefines == [BridgeNext]_allVars => [Next]_vars
BY DEF BridgeNext, Message, Translate, Settles, LeavesLoop, Outbox, Restart, NextEvent,
       Next, allVars

(* FrigateBridge implements FrigateOutbox, whatever Frigate sends: an entry  *)
(* of the file never shows whether a presence session opened it.             *)
THEOREM ImplementsOutbox == BridgeSpec => Spec
<1>1. BridgeInit => Init
  BY DEF BridgeInit
<1>. QED BY <1>1, StepRefines, PTL DEF BridgeSpec, Spec

(* What holds of the outbox holds of it in the bridge: order, account and    *)
(* retries, whatever sessions open and whatever leaves the message loop.     *)
THEOREM OutboxKeptInBridge ==
  BridgeSpec => [](QueueInOrder /\ Accounted /\ DroppedAfterRetries)
BY ImplementsOutbox, QueueOrdered, QueueAccounted, NoEarlyDrop, PTL

(* Nothing moved, no session is open. *)
LEMMA PresenceInit == BridgeInit => PInv
BY DEF BridgeInit, Quiet, PInv, PresenceTyped, NearlyCurrent, SuppressedIsReported

(* Every step of the bridge keeps sessions and reports together. *)
LEMMA PresenceNext == TypeOK /\ PInv /\ [BridgeNext]_allVars => PInv'
<1> SUFFICES ASSUME TypeOK, PInv, [BridgeNext]_allVars PROVE PInv'
  OBVIOUS
<1>1. CASE Message
  BY <1>1, MessageIs, TranslateInv
<1>2. CASE Settles \/ LeavesLoop \/ Outbox \/ Restart
  BY <1>2, SettlesInv, LeavesLoopInv, OutboxInv, RestartInv
<1>3. CASE \E m \in Mappings : NextEvent(m)
  BY <1>3, NextEventInv
<1>4. CASE UNCHANGED allVars
  BY <1>4 DEF allVars, vars, ingestVars, historyVars, presenceVars, PInv, PresenceTyped,
              NearlyCurrent, SuppressedIsReported
<1>. QED BY <1>1, <1>2, <1>3, <1>4 DEF BridgeNext

(* The bridge's invariant holds in every state. *)
LEMMA PresenceInvariance == BridgeSpec => [](TypeOK /\ PInv)
<1>1. BridgeSpec => []TypeOK
  BY ImplementsOutbox, TypeCorrect
<1>. QED BY <1>1, PresenceInit, PresenceNext, PTL DEF BridgeSpec

(* install/frigate/README.md:60: a session that suppresses motion has its    *)
(* detection reported, in hand or in the outbox's care, unless the append to *)
(* the file failed.                                                          *)
THEOREM SuppressedReported == BridgeSpec => []SuppressedIsReported
<1>1. PInv => SuppressedIsReported
  BY DEF PInv
<1>. QED BY <1>1, PresenceInvariance, PTL

(* presence-session.ts:24-28: motion that goes on is one session, but for    *)
(* the time by which messages may be late.                                   *)
THEOREM MotionIsOneSession == BridgeSpec => OneSessionAtATime
<1> DEFINE A == \A m \in Debounced :
      m \in events' \ events /\ busy[m] # 0 => busy'[m] > busy[m] + Gap - Late
<1>1. ASSUME PInv, [BridgeNext]_allVars
      PROVE  A \/ UNCHANGED allVars
  <2> SUFFICES ASSUME NEW m \in Debounced, m \in events' \ events, busy[m] # 0
               PROVE  busy'[m] > busy[m] + Gap - Late
    OBVIOUS
  <2>1. Message
    BY <1>1 DEF BridgeNext, Settles, LeavesLoop, Outbox, Restart, NextEvent, allVars,
                presenceVars
  <2>2. PICK targets \in SUBSET Mappings, at \in Frames : Translate(targets, at)
    BY <2>1, MessageIs
  <2>3. /\ m \in targets /\ Opens(m, at) /\ busy'[m] = Later(busy[m], at)
    BY <2>2 DEF Translate
  <2>4. /\ busy[m] \in Nat /\ sessions[m] \in Nat /\ sessions[m] # 0
        /\ busy[m] <= sessions[m] + Late
    BY <1>1 DEF PInv, PresenceTyped, NearlyCurrent
  <2>5. at > sessions[m] + Gap
    BY <2>3, <2>4 DEF Opens, Debounced
  <2>6. at \in Nat /\ Gap \in Nat /\ Late \in Nat
    BY FramesAssumption DEF Frames
  <2>. QED BY <2>3, <2>4, <2>5, <2>6 DEF Later
<1>2. PInv /\ [BridgeNext]_allVars => [A]_allVars
  BY <1>1
<1>. QED BY <1>2, PresenceInvariance, PTL DEF BridgeSpec, OneSessionAtATime

=============================================================================
