------------------------- MODULE CommandLoopProofs -------------------------
(***************************************************************************)
(* Proofs about CommandLoop, for any number of commands, lost answers,     *)
(* failed downloads, restarts and rollbacks.                               *)
(***************************************************************************)
EXTENDS CommandLoop, FiniteSetTheorems, TLAPS

Orders(c) == Action(c) \in Versions
InBatch(c) == \E i \in DOMAIN batch : batch[i] = c

(* An order that was not given yet asks for no image. *)
Unissued == \A c \in Commands : orders[c].reply = "none" => Action(c) = "unknown"

(* A download is under way for the command at the head; it overwrote no     *)
(* slot that was to start next without this being noted.                    *)
Downloading ==
  loop = "download" =>
    /\ Action(Head(batch)) \in Versions \ {runs} /\ ~trial
    /\ next = "spare" => clobbered /\ excused

(* The answer that is being sent is the right one for an UPDATE. *)
Honest ==
  loop = "ack" /\ Orders(Head(batch)) =>
    /\ result = "failed" => Action(Head(batch)) # runs
    /\ result = "done" => \/ Action(Head(batch)) = runs
                          \/ next = "spare" /\ spare = Action(Head(batch))

(* A slot that is to start next will be started before the next poll. *)
RestartIsDue == next = "spare" => rebootAfterAck

(* Where an image can come from. *)
Good == {"v1"} \cup {Action(c) : c \in {d \in Commands : Action(d) \in Versions}}
ImagesAreGood ==
  ~clobbered => /\ runs \in Good
                /\ next = "spare" \/ trial => spare \in Good

(* What runs, and what is to run, is what Identity was told or what it asked *)
(* for in an order whose answer was lost.                                    *)
Known ==
  believed # "none" /\ ~excused =>
    /\ next = "running" => \/ runs = believed
                           \/ \E c \in Pending : Action(c) = runs
    /\ next = "spare" =>
         \/ spare = believed
         \/ \E c \in Pending :
              /\ Action(c) = spare
              /\ InBatch(c) => loop = "ack" /\ c = Head(batch) /\ result = "done"

IInv ==
  /\ TypeOK /\ NotRunOnceDone
  /\ Unissued /\ Downloading /\ Honest /\ RestartIsDue /\ ImagesAreGood /\ Known

-----------------------------------------------------------------------------
(* Sequences of commands *)

(* The first command of a batch is pending and not among the rest. *)
LEMMA HeadAndTail ==
  ASSUME TypeOK, NotRunOnceDone, batch # <<>>
  PROVE  /\ Head(batch) \in Commands /\ Head(batch) \in Pending /\ InBatch(Head(batch))
         /\ Tail(batch) \in Seq(Commands)
         /\ \A i \in DOMAIN Tail(batch) :
              /\ i + 1 \in DOMAIN batch /\ Tail(batch)[i] = batch[i + 1]
              /\ Tail(batch)[i] # Head(batch)
         /\ \A i, j \in DOMAIN Tail(batch) : Tail(batch)[i] = Tail(batch)[j] => i = j
<1> batch \in Seq(Commands) /\ Len(batch) \in Nat /\ Len(batch) > 0 /\ 1 \in DOMAIN batch
  BY DEF TypeOK
<1>1. Head(batch) = batch[1] /\ Head(batch) \in Commands
  OBVIOUS
<1>2. orders[batch[1]].reply = "pending"
  BY DEF NotRunOnceDone
<1>3. Tail(batch) \in Seq(Commands) /\ DOMAIN Tail(batch) = 1 .. Len(batch) - 1
  OBVIOUS
<1>4. \A i \in DOMAIN Tail(batch) : i + 1 \in DOMAIN batch /\ Tail(batch)[i] = batch[i + 1]
  BY <1>3
<1>5. \A i \in DOMAIN Tail(batch) : Tail(batch)[i] # Head(batch)
  <2> TAKE i \in DOMAIN Tail(batch)
  <2> i + 1 \in DOMAIN batch /\ i \in Nat /\ i + 1 # 1
    BY <1>3, <1>4
  <2> QED
    BY <1>1, <1>4 DEF NotRunOnceDone
<1>6. \A i, j \in DOMAIN Tail(batch) : Tail(batch)[i] = Tail(batch)[j] => i = j
  <2> SUFFICES ASSUME NEW i \in DOMAIN Tail(batch), NEW j \in DOMAIN Tail(batch),
                      Tail(batch)[i] = Tail(batch)[j]
               PROVE  i = j
    OBVIOUS
  <2> batch[i + 1] = batch[j + 1] /\ i \in Nat /\ j \in Nat
    BY <1>3, <1>4
  <2> i + 1 = j + 1
    BY <1>4 DEF NotRunOnceDone
  <2> QED
    OBVIOUS
<1> QED
  BY <1>1, <1>2, <1>3, <1>4, <1>5, <1>6 DEF Pending, InBatch

(* A batch that the poll answers holds pending commands, in any order. *)
LEMMA BatchOfPending ==
  ASSUME NEW s \in SetToSeqs(Pending)
  PROVE  /\ s \in Seq(Commands)
         /\ \A i \in DOMAIN s : s[i] \in Pending
         /\ \A i, j \in DOMAIN s : s[i] = s[j] => i = j
<1>1. IsFiniteSet(Pending) /\ Pending \subseteq Commands
  BY CommandsAssumption, FS_Subset DEF Pending
<1>2. Cardinality(Pending) \in Nat
  BY <1>1, FS_CardinalityType
<1>3. /\ s \in [1 .. Cardinality(Pending) -> Pending]
      /\ \A i, j \in 1 .. Cardinality(Pending) : i # j => s[i] # s[j]
  BY DEF SetToSeqs
<1>4. s \in Seq(Pending)
  BY <1>2, <1>3
<1>5. s \in Seq(Commands)
  BY <1>1, <1>4
<1> QED
  BY <1>3, <1>5

-----------------------------------------------------------------------------
(* The inductive invariant *)

(* The invariant holds at the start. *)
LEMMA InitInv == Init => IInv
<1> SUFFICES ASSUME Init PROVE IInv
  OBVIOUS
<1>1. \A c \in Commands : orders[c].reply = "none" /\ Action(c) = "unknown"
  BY DEF Init, Action
<1>2. orders \in [Commands -> [action : Actions, reply : Replies \cup {"none"}]]
  BY DEF Init, Actions, Replies
<1>3. TypeOK
  <2>1. batch = <<>> /\ batch \in Seq(Commands)
    BY DEF Init
  <2> QED
    BY <1>2, <2>1 DEF Init, TypeOK, Images, Versions
<1>4. NotRunOnceDone /\ Unissued
  BY <1>1 DEF Init, NotRunOnceDone, Unissued
<1>5. Downloading /\ Honest /\ RestartIsDue /\ ImagesAreGood /\ Known
  BY DEF Init, Downloading, Honest, RestartIsDue, ImagesAreGood, Known, Good
<1> QED
  BY <1>3, <1>4, <1>5 DEF IInv

(* Nothing changes when nothing happens. *)
LEMMA StutterInv == IInv /\ UNCHANGED vars => IInv'
BY DEF vars, identityVars, loopVars, imageVars, IInv, TypeOK, NotRunOnceDone, Unissued,
       Downloading, Honest, RestartIsDue, ImagesAreGood, Known, Good, Action, Orders,
       Pending, InBatch

(* A poll starts a batch with what is pending. *)
LEMMA FetchInv == IInv /\ Fetch => IInv'
<1> SUFFICES ASSUME IInv, Fetch PROVE IInv'
  OBVIOUS
<1> USE DEF Fetch, identityVars, imageVars
<1>1. /\ batch' \in Seq(Commands)
      /\ \A i \in DOMAIN batch' : batch'[i] \in Pending
      /\ \A i, j \in DOMAIN batch' : batch'[i] = batch'[j] => i = j
  BY BatchOfPending
<1>2. TypeOK'
  BY <1>1 DEF IInv, TypeOK
<1>3. NotRunOnceDone'
  BY <1>1 DEF NotRunOnceDone, Pending
<1>4. Unissued' /\ Downloading' /\ Honest' /\ RestartIsDue' /\ ImagesAreGood'
  BY DEF IInv, Unissued, Downloading, Honest, RestartIsDue, ImagesAreGood, Good, Action, Orders
<1>5. next = "running"
  BY DEF IInv, TypeOK, RestartIsDue
<1>6. Known'
  BY <1>5 DEF IInv, Known, Action, Pending
<1> QED
  BY <1>2, <1>3, <1>4, <1>6 DEF IInv

(* A command that is handed in is new: neither run nor answered. *)
LEMMA IssueInv == ASSUME IInv, NEW c \in Commands, Issue(c) PROVE IInv'
<1> USE DEF Issue, loopVars, imageVars
<1>1. PICK a \in Actions : orders' = [orders EXCEPT ![c] = [action |-> a, reply |-> "pending"]]
  OBVIOUS
<1>2. orders \in [Commands -> [action : Actions, reply : Replies \cup {"none"}]]
  BY DEF IInv, TypeOK
<1>3. /\ orders' \in [Commands -> [action : Actions, reply : Replies \cup {"none"}]]
      /\ \A d \in Commands \ {c} : orders'[d] = orders[d]
      /\ orders'[c].reply = "pending" /\ orders[c].reply = "none"
  BY <1>1, <1>2 DEF Replies
<1>4. Action(c) = "unknown" /\ \A d \in Commands : d # c => Action(d)' = Action(d)
  BY <1>3 DEF IInv, Unissued, Action
<1>5. \A d \in Pending : d # c /\ d \in Pending'
  BY <1>3 DEF Pending
<1>6. TypeOK'
  BY <1>3 DEF IInv, TypeOK
<1>7. /\ \A i \in DOMAIN batch : batch[i] \in Commands /\ batch[i] # c
      /\ batch # <<>> => Head(batch) \in Commands /\ Head(batch) # c
  <2>1. \A i \in DOMAIN batch : batch[i] \in Commands /\ batch[i] # c
    BY <1>3 DEF IInv, TypeOK, NotRunOnceDone
  <2>2. batch # <<>> => Head(batch) = batch[1] /\ 1 \in DOMAIN batch
    BY DEF IInv, TypeOK
  <2> QED
    BY <2>1, <2>2
<1>8. NotRunOnceDone'
  BY <1>3, <1>7 DEF IInv, NotRunOnceDone
<1>9. Unissued'
  BY <1>3, <1>4 DEF IInv, Unissued, Action
<1>10. Downloading' /\ Honest'
  BY <1>4, <1>7 DEF IInv, TypeOK, Downloading, Honest, Orders
<1>11. RestartIsDue'
  BY DEF IInv, RestartIsDue
<1>12. ImagesAreGood'
  <2>1. Good \subseteq Good'
    BY <1>4 DEF Good, Versions
  <2> QED
    BY <2>1 DEF IInv, ImagesAreGood
<1>13. Known'
  BY <1>4, <1>5 DEF IInv, Known, InBatch, Pending
<1> QED
  BY <1>6, <1>8, <1>9, <1>10, <1>11, <1>12, <1>13 DEF IInv

(* A key that comes or goes leaves commands and images alone. *)
LEMMA KeyInv == IInv /\ (Claim \/ Drop) => IInv'
<1> SUFFICES ASSUME IInv, Claim \/ Drop PROVE IInv'
  OBVIOUS
<1>1. UNCHANGED <<identityVars, loopVars, imageVars>> /\ configured' \in BOOLEAN
  BY DEF Claim, Drop, EnterSetupMode, IInv, TypeOK
<1> QED
  BY <1>1 DEF identityVars, loopVars, imageVars, IInv, TypeOK, NotRunOnceDone, Unissued,
       Downloading, Honest, RestartIsDue, ImagesAreGood, Known, Good, Action, Orders,
       Pending, InBatch

(* A command other than UPDATE is run and its result kept to be answered. *)
LEMMA ExecuteInv == IInv /\ Execute => IInv'
<1> SUFFICES ASSUME IInv, Execute PROVE IInv'
  OBVIOUS
<1> USE DEF Execute, identityVars, imageVars, Reboots, Restarts, Answers
<1>1. /\ loop = "run" /\ loop' = "ack" /\ batch # <<>> /\ result' \in {"done", "failed"}
      /\ rebootAfterAck' \in BOOLEAN /\ (rebootAfterAck => rebootAfterAck')
      /\ configured' \in BOOLEAN
  BY DEF IInv, TypeOK, EnterSetupMode
<1>2. Action(Head(batch)) \notin Versions
  BY DEF Versions
<1>3. TypeOK'
  BY <1>1 DEF IInv, TypeOK
<1>4. NotRunOnceDone' /\ Unissued' /\ Downloading' /\ RestartIsDue' /\ ImagesAreGood'
  BY <1>1 DEF IInv, NotRunOnceDone, Unissued, Downloading, RestartIsDue, ImagesAreGood, Good,
              Action
<1>5. Honest'
  BY <1>2 DEF Honest, Orders, Action
<1>6. Known'
  BY <1>1 DEF IInv, Known, Action, Pending, InBatch
<1> QED
  BY <1>3, <1>4, <1>5, <1>6 DEF IInv

(* UPDATE is refused, needless, or opens the slot that does not run. *)
LEMMA BeginUpdateInv == IInv /\ BeginUpdate => IInv'
<1> SUFFICES ASSUME IInv, BeginUpdate PROVE IInv'
  OBVIOUS
<1> USE DEF BeginUpdate, Restarts, Answers, Keeps
<1>1. UNCHANGED <<configured, orders, believed, batch, runs, trial, rebootAfterAck>>
  BY DEF IInv, TypeOK
<1>2. loop = "run" /\ batch # <<>> /\ result = "none"
  BY DEF IInv, TypeOK
<1>3. CASE loop' = "ack"
  <2>1. /\ UNCHANGED <<spare, next, excused, clobbered>>
        /\ result' \in {"done", "failed"}
        /\ result' = "failed" => Action(Head(batch)) # runs
        /\ result' = "done" => Action(Head(batch)) = runs
    BY <1>3
  <2>2. TypeOK'
    BY <1>1, <1>2, <1>3, <2>1 DEF IInv, TypeOK
  <2>3. NotRunOnceDone' /\ Unissued' /\ Downloading' /\ RestartIsDue' /\ ImagesAreGood'
    BY <1>1, <1>3, <2>1 DEF IInv, NotRunOnceDone, Unissued, Downloading, RestartIsDue,
                            ImagesAreGood, Good, Action
  <2>4. Honest'
    BY <1>1, <2>1 DEF Honest, Action, Orders
  <2>5. Known'
    BY <1>1, <1>2, <2>1 DEF IInv, Known, Action, Pending, InBatch
  <2> QED
    BY <2>2, <2>3, <2>4, <2>5 DEF IInv
<1>4. CASE loop' = "download"
  <2>1. /\ Action(Head(batch)) \in Versions \ {runs} /\ ~trial
        /\ spare' = "broken" /\ next' \in {next, "running"} /\ result' = result
        /\ excused' = (excused \/ next = "spare")
        /\ clobbered' = (clobbered \/ next = "spare")
    BY <1>4
  <2>2. TypeOK'
    BY <1>1, <1>2, <1>4, <2>1 DEF IInv, TypeOK, Images
  <2>3. NotRunOnceDone' /\ Unissued' /\ RestartIsDue'
    BY <1>1, <2>1 DEF IInv, TypeOK, NotRunOnceDone, Unissued, RestartIsDue, Action
  <2> HIDE DEF BeginUpdate, Keeps
  <2>4. Downloading' /\ Honest'
    <3>1. Action(Head(batch))' = Action(Head(batch))
      BY <1>1 DEF Action
    <3>2. next' = "spare" => clobbered' /\ excused'
      BY <2>1
    <3> QED
      BY <1>1, <1>4, <2>1, <3>1, <3>2 DEF Downloading, Honest
  <2>5. ImagesAreGood'
    <3>1. Good' = Good
      BY <1>1 DEF Good, Action
    <3>2. ~clobbered' => ~clobbered /\ next' # "spare" /\ ~trial'
      BY <1>1, <2>1 DEF IInv, TypeOK
    <3> QED
      BY <1>1, <3>1, <3>2 DEF IInv, ImagesAreGood
  <2>6. Known'
    BY <1>1, <2>1 DEF IInv, TypeOK, Known, Action, Pending, InBatch
  <2> QED
    BY <2>2, <2>3, <2>4, <2>5, <2>6 DEF IInv
<1> QED
  BY <1>3, <1>4

(* A verified download is the ordered image, in the chosen slot. *)
LEMMA DownloadInv == IInv /\ Download => IInv'
<1> SUFFICES ASSUME IInv, Download PROVE IInv'
  OBVIOUS
<1> USE DEF Download, Restarts, Answers, identityVars
<1> DEFINE v == Action(Head(batch))
<1>1. /\ UNCHANGED <<configured, orders, believed, excused, batch, runs, trial, clobbered>>
      /\ loop = "download" /\ loop' = "ack" /\ batch # <<>>
      /\ rebootAfterAck' \in BOOLEAN /\ (rebootAfterAck => rebootAfterAck')
      /\ v \in Versions \ {runs} /\ ~trial /\ (next = "spare" => clobbered /\ excused)
  BY DEF IInv, TypeOK, Downloading
<1>2. /\ Head(batch) \in Commands /\ Head(batch) \in Pending
  BY <1>1, HeadAndTail DEF IInv
<1>3. /\ spare' \in {v, "wrong", "broken"} /\ next' \in {next, "spare"}
      /\ \/ result' = "failed" /\ next' = next
         \/ result' = "done" /\ next' = "spare" /\ spare' = v /\ rebootAfterAck'
  BY DEF IInv, TypeOK
<1>4. TypeOK'
  BY <1>1, <1>3 DEF IInv, TypeOK, Images
<1>5. NotRunOnceDone' /\ Unissued' /\ Downloading' /\ RestartIsDue'
  BY <1>1, <1>3 DEF IInv, NotRunOnceDone, Unissued, Downloading, RestartIsDue, Action
<1>6. Honest'
  BY <1>1, <1>3 DEF Honest, Orders, Action
<1>7. ImagesAreGood'
  <2>1. v \in Good
    BY <1>1, <1>2 DEF Good
  <2>2. Good' = Good
    BY <1>1 DEF Good, Action
  <2> QED
    BY <1>1, <1>3, <2>1, <2>2 DEF IInv, ImagesAreGood
<1>8. Known'
  <2>1. CASE result' = "failed"
    BY <1>1, <1>3, <2>1 DEF IInv, TypeOK, Known, Action, Pending, InBatch
  <2>2. CASE result' = "done"
    BY <1>1, <1>2, <1>3, <2>2 DEF IInv, TypeOK, Known, Action, Pending, InBatch
  <2> QED
    BY <1>3, <2>1, <2>2
<1> QED
  BY <1>4, <1>5, <1>6, <1>7, <1>8 DEF IInv

(* What both ways of ending an answer do to the batch. *)
LEMMA AnsweredStep ==
  ASSUME IInv, loop = "ack", Answered
  PROVE  /\ batch # <<>> /\ loop' = "run" /\ result' = "none" /\ batch' = Tail(batch)
         /\ UNCHANGED <<rebootAfterAck, runs, spare, next, trial, clobbered>>
         /\ configured' \in BOOLEAN
         /\ batch' \in Seq(Commands)
         /\ \A i, j \in DOMAIN batch' : batch'[i] = batch'[j] => i = j
         /\ \A i \in DOMAIN batch' :
              /\ batch'[i] \in Commands /\ batch'[i] # Head(batch)
              /\ InBatch(batch'[i]) /\ orders[batch'[i]].reply = "pending"
         /\ Head(batch) \in Commands /\ Head(batch) \in Pending
         /\ \A c : InBatch(c)' => InBatch(c) /\ c # Head(batch)
<1>1. batch # <<>> /\ batch' = Tail(batch)
  BY DEF Answered, IInv, TypeOK
<1>2. configured' \in BOOLEAN
  BY DEF Answered, EnterSetupMode, IInv, TypeOK
<1>3. /\ Head(batch) \in Commands /\ Head(batch) \in Pending
      /\ Tail(batch) \in Seq(Commands)
      /\ \A i \in DOMAIN Tail(batch) :
           /\ i + 1 \in DOMAIN batch /\ Tail(batch)[i] = batch[i + 1]
           /\ Tail(batch)[i] # Head(batch)
      /\ \A i, j \in DOMAIN Tail(batch) : Tail(batch)[i] = Tail(batch)[j] => i = j
  BY <1>1, HeadAndTail DEF IInv
<1>4. \A i \in DOMAIN batch' :
        /\ batch'[i] \in Commands /\ batch'[i] # Head(batch)
        /\ InBatch(batch'[i]) /\ orders[batch'[i]].reply = "pending"
  BY <1>1, <1>3 DEF IInv, TypeOK, NotRunOnceDone, InBatch
<1>5. \A c : InBatch(c)' => InBatch(c) /\ c # Head(batch)
  BY <1>1, <1>3 DEF InBatch
<1> QED
  BY <1>1, <1>2, <1>3, <1>4, <1>5 DEF Answered, imageVars

(* A lost answer leaves the command pending and the batch goes on. *)
LEMMA AckLostInv == IInv /\ AckLost => IInv'
<1> SUFFICES ASSUME IInv, AckLost PROVE IInv'
  OBVIOUS
<1>1. loop = "ack" /\ Answered /\ UNCHANGED <<orders, believed, excused>>
  BY DEF AckLost, identityVars
<1>2. /\ batch # <<>> /\ loop' = "run" /\ result' = "none"
      /\ UNCHANGED <<rebootAfterAck, runs, spare, next, trial, clobbered>>
      /\ configured' \in BOOLEAN /\ batch' \in Seq(Commands)
  BY <1>1, AnsweredStep
<1>3. TypeOK'
  BY <1>1, <1>2 DEF IInv, TypeOK
<1>4. NotRunOnceDone'
  BY <1>1, AnsweredStep DEF NotRunOnceDone
<1>5. Unissued' /\ Downloading' /\ Honest' /\ RestartIsDue' /\ ImagesAreGood'
  BY <1>1, <1>2 DEF IInv, Unissued, Downloading, Honest, RestartIsDue, ImagesAreGood, Good,
                    Action
<1>6. Known'
  <2>1. \A c \in Pending : InBatch(c)' => InBatch(c) /\ c # Head(batch)
    BY <1>1, AnsweredStep
  <2>2. Pending' = Pending /\ \A c : Action(c)' = Action(c)
    BY <1>1 DEF Pending, Action
  <2> QED
    BY <1>1, <1>2, <2>1, <2>2 DEF IInv, Known
<1> QED
  BY <1>3, <1>4, <1>5, <1>6 DEF IInv

(* Answered, a command is no longer pending. *)
LEMMA AckCommandInv == ASSUME IInv, NEW c \in Commands, AckCommand(c) PROVE IInv'
<1> DEFINE v == Action(c)
<1>1. /\ loop = "ack" /\ c = Head(batch) /\ Answered
      /\ orders' = [orders EXCEPT ![c].reply = result]
      /\ IF result = "done" /\ v \in Versions
         THEN believed' = v /\ excused' = (next = "spare" /\ v = runs)
         ELSE UNCHANGED <<believed, excused>>
      /\ result \in {"done", "failed"}
  BY DEF AckCommand, IInv, TypeOK
<1>2. /\ batch # <<>> /\ loop' = "run" /\ result' = "none"
      /\ UNCHANGED <<rebootAfterAck, runs, spare, next, trial, clobbered>>
      /\ configured' \in BOOLEAN /\ batch' \in Seq(Commands)
  BY <1>1, AnsweredStep
<1>3. orders \in [Commands -> [action : Actions, reply : Replies \cup {"none"}]]
  BY DEF IInv, TypeOK
<1>4. /\ orders' \in [Commands -> [action : Actions, reply : Replies \cup {"none"}]]
      /\ orders'[c].reply = result
      /\ \A d \in Commands : orders'[d].action = orders[d].action
      /\ \A d \in Commands \ {c} : orders'[d] = orders[d]
  BY <1>1, <1>3 DEF Replies
<1>5. /\ \A d \in Commands : Action(d)' = Action(d)
      /\ \A d \in Pending : d # c => d \in Pending'
  BY <1>4 DEF Action, Pending
<1>6. TypeOK'
  BY <1>1, <1>2, <1>4 DEF IInv, TypeOK
<1>7. NotRunOnceDone'
  BY <1>1, <1>4, AnsweredStep DEF NotRunOnceDone
<1>8. Unissued'
  BY <1>1, <1>4, <1>5 DEF IInv, Unissued
<1>9. Downloading' /\ Honest' /\ RestartIsDue'
  BY <1>2 DEF IInv, Downloading, Honest, RestartIsDue
<1>10. ImagesAreGood'
  <2>1. Good' = Good
    BY <1>5 DEF Good
  <2> QED
    BY <1>2, <2>1 DEF IInv, ImagesAreGood
<1>11. Known'
  <2>1. CASE result = "done" /\ v \in Versions
    <3>1. believed' = v /\ excused' = (next = "spare" /\ v = runs)
      BY <1>1, <2>1
    <3>2. v = runs \/ (next = "spare" /\ spare = v)
      BY <1>1, <2>1 DEF IInv, Honest, Orders
    <3> QED
      BY <1>2, <3>1, <3>2 DEF Known, IInv, TypeOK
  <2>2. CASE ~(result = "done" /\ v \in Versions)
    <3>1. UNCHANGED <<believed, excused>>
      BY <1>1, <2>2
    <3> SUFFICES ASSUME believed # "none", ~excused
                 PROVE  /\ next = "running" => \/ runs = believed
                                               \/ \E d \in Pending' : Action(d)' = runs
                        /\ next = "spare" =>
                             \/ spare = believed
                             \/ \E d \in Pending' : Action(d)' = spare /\ ~InBatch(d)'
      BY <1>2, <3>1 DEF Known
    <3>2. v \notin Versions \/ (result = "failed" /\ v # runs)
      BY <1>1, <2>2 DEF IInv, Honest, Orders
    <3>3. ASSUME next = "running", runs # believed
          PROVE  \E d \in Pending' : Action(d)' = runs
      <4>1. PICK d \in Pending : Action(d) = runs
        BY <3>3 DEF IInv, Known
      <4>2. d \in Commands /\ runs \in Versions
        BY <4>1 DEF Pending, IInv, TypeOK, Action, Images, Actions, Versions
      <4>3. d # c
        BY <3>2, <4>1, <4>2
      <4> QED
        BY <1>5, <4>1, <4>2, <4>3
    <3>4. ASSUME next = "spare", spare # believed
          PROVE  \E d \in Pending' : Action(d)' = spare /\ ~InBatch(d)'
      <4>1. PICK d \in Pending :
              /\ Action(d) = spare
              /\ InBatch(d) => loop = "ack" /\ d = Head(batch) /\ result = "done"
        BY <3>4 DEF IInv, Known
      <4>2. d \in Commands /\ spare \in Versions
        BY <4>1 DEF Pending, IInv, TypeOK, Action, Images, Actions, Versions
      <4>3. InBatch(c)
        BY <1>1, <1>2, HeadAndTail DEF IInv
      <4>4. d # c
        BY <3>2, <4>1, <4>2, <4>3
      <4>5. ~InBatch(d)'
        BY <1>1, <4>1, AnsweredStep
      <4> QED
        BY <1>5, <4>1, <4>2, <4>4, <4>5
    <3> QED
      BY <3>3, <3>4
  <2> QED
    BY <2>1, <2>2
<1> QED
  BY <1>6, <1>7, <1>8, <1>9, <1>10, <1>11 DEF IInv

(* A batch ends in waiting or in the restart it asked for. *)
LEMMA EndBatchInv == IInv /\ EndBatch => IInv'
<1> SUFFICES ASSUME IInv, EndBatch PROVE IInv'
  OBVIOUS
<1>1. /\ UNCHANGED <<configured, identityVars, batch, result, rebootAfterAck, imageVars>>
      /\ loop = "run" /\ batch = <<>> /\ loop' \in {"wait", "restart"}
      /\ loop' = "wait" => ~rebootAfterAck
  BY DEF EndBatch
<1>2. TypeOK'
  BY <1>1 DEF IInv, TypeOK, identityVars, imageVars
<1>3. NotRunOnceDone' /\ Unissued' /\ Downloading' /\ Honest' /\ RestartIsDue' /\ ImagesAreGood'
  BY <1>1 DEF IInv, NotRunOnceDone, Unissued, Downloading, Honest, RestartIsDue, ImagesAreGood,
              Good, Action, identityVars, imageVars
<1>4. Known'
  BY <1>1 DEF IInv, Known, Action, Pending, InBatch, identityVars, imageVars
<1> QED
  BY <1>2, <1>3, <1>4 DEF IInv

(* A restart runs the chosen image, the same one, or rolls back. *)
LEMMA BootInv == IInv /\ Boot => IInv'
<1> SUFFICES ASSUME IInv, Boot PROVE IInv'
  OBVIOUS
<1>1. /\ loop' = "wait" /\ batch' = <<>> /\ result' = "none" /\ rebootAfterAck' = FALSE
      /\ next' = "running" /\ UNCHANGED <<configured, orders, believed, clobbered>>
  BY DEF Boot
<1>2. \/ /\ next = "spare" /\ spare # "broken"
         /\ runs' = spare /\ spare' = runs /\ trial' = TRUE /\ excused' = excused
      \/ /\ trial /\ ~(next = "spare" /\ spare # "broken")
         /\ runs' = spare /\ spare' = runs /\ trial' = FALSE /\ excused' = TRUE
      \/ /\ ~trial /\ ~(next = "spare" /\ spare # "broken")
         /\ UNCHANGED <<runs, spare>> /\ trial' = FALSE /\ excused' = excused
  BY DEF Boot, Swapped, IInv, TypeOK
<1>3. TypeOK'
  <2>1. batch' \in Seq(Commands)
    BY <1>1
  <2> QED
    BY <1>1, <1>2, <2>1 DEF IInv, TypeOK
<1>4. NotRunOnceDone' /\ Unissued' /\ Downloading' /\ Honest' /\ RestartIsDue'
  BY <1>1 DEF IInv, NotRunOnceDone, Unissued, Downloading, Honest, RestartIsDue, Action
<1>5. ImagesAreGood'
  <2>1. Good' = Good
    BY <1>1 DEF Good, Action
  <2> QED
    BY <1>1, <1>2, <2>1 DEF IInv, TypeOK, ImagesAreGood
<1>6. Known'
  <2> SUFFICES ASSUME believed # "none", ~excused'
               PROVE  runs' = believed \/ \E c \in Pending : Action(c) = runs'
    BY <1>1 DEF Known, Pending, Action
  <2>1. ~excused
    BY <1>2
  <2>2. CASE next = "running"
    BY <1>2, <2>1, <2>2 DEF IInv, Known
  <2>3. CASE next = "spare"
    <3>1. spare = believed \/ \E c \in Pending : Action(c) = spare
      BY <2>1, <2>3 DEF IInv, Known
    <3>2. spare # "broken"
      BY <3>1 DEF IInv, TypeOK, Versions, Pending, Actions, Action
    <3> QED
      BY <1>2, <2>3, <3>1, <3>2
  <2> QED
    BY <2>2, <2>3 DEF IInv, TypeOK
<1> QED
  BY <1>3, <1>4, <1>5, <1>6 DEF IInv

(* A confirmed image stays. *)
LEMMA ConfirmInv == IInv /\ MarkFirmwareValid => IInv'
<1> SUFFICES ASSUME IInv, MarkFirmwareValid PROVE IInv'
  OBVIOUS
<1>1. /\ UNCHANGED <<configured, orders, believed, excused, loop, batch, result,
                    rebootAfterAck, runs, spare, next, clobbered>>
      /\ trial' = FALSE
  BY DEF MarkFirmwareValid, identityVars, loopVars
<1>2. TypeOK'
  BY <1>1 DEF IInv, TypeOK
<1>3. NotRunOnceDone' /\ Unissued' /\ Downloading' /\ Honest' /\ RestartIsDue'
  BY <1>1 DEF IInv, NotRunOnceDone, Unissued, Downloading, Honest, RestartIsDue, Action, Orders
<1>4. ImagesAreGood'
  BY <1>1 DEF IInv, ImagesAreGood, Good, Action
<1>5. Known'
  BY <1>1 DEF IInv, Known, Action, Pending, InBatch
<1> QED
  BY <1>2, <1>3, <1>4, <1>5 DEF IInv

(* Every step of the command loop preserves the invariant. *)
LEMMA StepInv == IInv /\ [Next]_vars => IInv'
<1> SUFFICES ASSUME IInv, [Next]_vars PROVE IInv'
  OBVIOUS
<1>1. ASSUME NEW c \in Commands, Issue(c) \/ AckCommand(c) PROVE IInv'
  BY <1>1, IssueInv, AckCommandInv
<1>2. CASE Claim \/ Drop
  BY <1>2, KeyInv
<1>3. CASE Fetch \/ Execute \/ BeginUpdate \/ Download
  BY <1>3, FetchInv, ExecuteInv, BeginUpdateInv, DownloadInv
<1>4. CASE AckLost \/ EndBatch
  BY <1>4, AckLostInv, EndBatchInv
<1>5. CASE Restart \/ PowerCut
  BY <1>5, BootInv DEF Restart, PowerCut
<1>6. CASE MarkFirmwareValid
  BY <1>6, ConfirmInv
<1>7. CASE UNCHANGED vars
  BY <1>7, StutterInv
<1> QED
  BY <1>1, <1>2, <1>3, <1>4, <1>5, <1>6, <1>7 DEF Next

(* The inductive invariant holds in every state. *)
THEOREM Invariance == Spec => []IInv
BY InitInv, StepInv, PTL DEF Spec

-----------------------------------------------------------------------------
(* Theorems *)

(* Type correctness of the command loop, for any finite set of commands. *)
THEOREM TypeCorrect == Spec => []TypeOK
<1>1. IInv => TypeOK
  BY DEF IInv
<1> QED
  BY <1>1, Invariance, PTL

(* No answer of ExecuteCommand that Identity took is followed by another      *)
(* execution of the command, whatever answers and restarts come in between.  *)
THEOREM AnsweredOnce == Spec => []NotRunOnceDone
<1>1. IInv => NotRunOnceDone
  BY DEF IInv
<1> QED
  BY <1>1, Invariance, PTL

(* ota::Apply: but for an UPDATE begun over the slot that was to start next, *)
(* no image with another hash than the ordered one is ever started.          *)
THEOREM OnlyOrderedImages == Spec => []OrderedImagesOnly
<1>1. IInv => OrderedImagesOnly
  BY DEF IInv, ImagesAreGood, Good, OrderedImagesOnly
<1> QED
  BY <1>1, Invariance, PTL

(* CommandLoop, ota::Apply and the bootloader together: an update that was    *)
(* answered as done runs once the loop waits for the next poll, unless it was *)
(* rolled back, another UPDATE got in its way, or one is still unanswered.   *)
THEOREM DoneMeansRunning == Spec => []DoneUpdateRuns
<1>1. IInv => DoneUpdateRuns
  <2> SUFFICES ASSUME IInv, loop = "wait", believed # "none", ~excused,
                      \A c \in Pending : Action(c) \notin Versions
               PROVE  runs = believed
    BY DEF DoneUpdateRuns
  <2>1. next = "running"
    BY DEF IInv, TypeOK, RestartIsDue
  <2>2. runs = believed \/ \E c \in Pending : Action(c) = runs
    BY <2>1 DEF IInv, Known
  <2>3. ASSUME NEW c \in Pending, Action(c) = runs PROVE FALSE
    BY <2>3 DEF Pending, IInv, TypeOK, Action, Images, Actions, Versions
  <2> QED
    BY <2>2, <2>3
<1> QED
  BY <1>1, Invariance, PTL

-----------------------------------------------------------------------------
(* The loop implements RemoteOrder *)

Lives == [c \in Commands |-> Life(c)]
Tolds == [c \in Commands |-> Told(c)]

(* Where a command is, in the words of the invariant. *)
LEMMA LifeFacts ==
  ASSUME IInv
  PROVE  /\ \A c \in Commands :
              /\ c \in ToSet(batch) <=> InBatch(c)
              /\ InBatch(c) => orders[c].reply = "pending"
              /\ Life(c) = "taken" => InBatch(c)
              /\ Life(c) = "carried" => InBatch(c) /\ loop = "ack" /\ c = Head(batch)
              /\ ~InBatch(c) /\ orders[c].reply = "pending" => Life(c) = "ordered"
              /\ ~InBatch(c) /\ orders[c].reply = "none" => Life(c) = "none"
              /\ InBatch(c) /\ loop # "ack" => Life(c) = "taken"
              /\ InBatch(c) /\ c # Head(batch) => Life(c) = "taken"
         /\ batch # <<>> => /\ Head(batch) \in Commands /\ InBatch(Head(batch))
                            /\ loop = "ack" => Life(Head(batch)) = "carried"
<1>1. \A c \in Commands : c \in ToSet(batch) <=> InBatch(c)
  BY DEF ToSet, InBatch
<1>2. \A c \in Commands : InBatch(c) => orders[c].reply = "pending"
  BY DEF IInv, NotRunOnceDone, InBatch
<1>3. batch # <<>> => Head(batch) \in Commands /\ InBatch(Head(batch))
  BY HeadAndTail DEF IInv
<1>. QED BY <1>1, <1>2, <1>3 DEF Life

(* A step that moves neither batch nor answers leaves every life alone, but  *)
(* for the head of the batch when its answer is ready.                       *)
LEMMA SameLife ==
  ASSUME UNCHANGED <<orders, batch>>,
         NEW c \in Commands, c # Head(batch) \/ (loop # "ack" /\ loop' # "ack") \/ loop' = loop
  PROVE  Life(c)' = Life(c) /\ Told(c)' = Told(c)
BY DEF Life, Told

(* An execution, or the end of a download, carries out the head. *)
LEMMA CarryOutSteps ==
  ASSUME IInv, loop \in {"run", "download"}, batch # <<>>, UNCHANGED <<orders, batch>>,
         NEW r \in {"done", "failed"}, Answers(r)
  PROVE  Remote!Next
<1>. DEFINE h == Head(batch)
<1>1. h \in Commands /\ InBatch(h) /\ h \in ToSet(batch)
  BY LifeFacts DEF IInv
<1>2. Life(h) = "taken" /\ Life(h)' = "carried"
  BY <1>1, LifeFacts DEF Answers, Life
<1>3. \A c \in Commands : (c # h => Life(c)' = Life(c)) /\ Told(c)' = Told(c)
  BY SameLife DEF Told
<1>4. \A c \in Commands : Life(c) # "carried"
  BY LifeFacts
<1>5. Lives' = [Lives EXCEPT ![h] = "carried"] /\ Tolds' = Tolds
  BY <1>1, <1>2, <1>3 DEF Lives, Tolds
<1>6. Remote!CarryOut(h)
  BY <1>1, <1>2, <1>4, <1>5
     DEF Remote!CarryOut, Remote!Busy, Remote!Outcomes, Answers, Lives, Tolds
<1>. QED BY <1>1, <1>6 DEF Remote!Next

(* A poll takes the commands it was given. *)
LEMMA FetchSteps ==
  ASSUME IInv, Fetch
  PROVE  Remote!Next
<1>1. batch = <<>> /\ loop = "wait" /\ loop' = "run" /\ UNCHANGED <<orders, result>>
  BY DEF Fetch, identityVars, IInv, TypeOK
<1>2. \A i \in DOMAIN batch' : batch'[i] \in Pending
  BY BatchOfPending DEF Fetch
<1>3. \A c \in Commands : ~InBatch(c)
  BY <1>1 DEF InBatch
<1>4. \A c \in Commands : Life(c) \notin {"taken", "carried"}
  BY <1>3, LifeFacts
<1>. DEFINE S == {c \in Commands : InBatch(c)'}
<1>5. \A c \in S : Life(c) = "ordered"
  BY <1>2, <1>3, LifeFacts DEF InBatch, Pending
<1>6. \A c \in Commands : Life(c)' = IF c \in S THEN "taken" ELSE Life(c)
  <2>1. \A c \in Commands : c \in ToSet(batch)' <=> InBatch(c)'
    BY DEF ToSet, InBatch
  <2>2. \A c \in Commands : c \notin ToSet(batch)
    BY <1>3, LifeFacts
  <2>. QED BY <1>1, <2>1, <2>2 DEF Life
<1>7. Tolds' = Tolds
  BY <1>1 DEF Told, Tolds
<1>8. Remote!Take(S)
  BY <1>1, <1>4, <1>5, <1>6, <1>7 DEF Remote!Take, Remote!Idle, Lives, Tolds
<1>. QED BY <1>8 DEF Remote!Next

(* An answer ends the head of the batch, taken by Identity or lost. *)
LEMMA AnswerSteps ==
  ASSUME IInv, AckLost \/ \E c \in Commands : AckCommand(c)
  PROVE  Remote!Next
<1>1. loop = "ack" /\ Answered /\ result \in {"done", "failed"}
  BY DEF AckLost, AckCommand, IInv, TypeOK
<1>2. PICK h \in Commands :
        /\ h = Head(batch) /\ h \in Pending
        /\ batch # <<>> /\ loop' = "run" /\ result' = "none" /\ batch' = Tail(batch)
        /\ \A c : InBatch(c)' => InBatch(c) /\ c # h
  BY <1>1, AnsweredStep
<1>3. AckLost \/ AckCommand(h)
  BY <1>2 DEF AckCommand
<1>4. \A c \in Commands : InBatch(c) /\ c # h => InBatch(c)'
  <2>. SUFFICES ASSUME NEW c \in Commands, NEW i \in DOMAIN batch, batch[i] = c, c # h
                PROVE  \E j \in DOMAIN Tail(batch) : Tail(batch)[j] = c
    BY <1>2 DEF InBatch
  <2>1. batch \in Seq(Commands) /\ i \in 1 .. Len(batch) /\ i # 1
    BY <1>2 DEF IInv, TypeOK
  <2>2. i - 1 \in DOMAIN Tail(batch) /\ Tail(batch)[i - 1] = batch[i]
    BY <1>2, <2>1
  <2>. QED BY <2>2
<1>5. /\ h \notin ToSet(batch)' /\ h \in ToSet(batch)
      /\ \A c \in Commands : c # h => (c \in ToSet(batch)' <=> c \in ToSet(batch))
  <2>1. \A c \in Commands : c \in ToSet(batch)' <=> InBatch(c)'
    BY DEF ToSet, InBatch
  <2>. QED BY <1>2, <1>4, <2>1, LifeFacts
<1>6. Life(h) = "carried"
  BY <1>1, <1>2, LifeFacts
<1>7. CASE AckLost
  <2>1. UNCHANGED orders
    BY <1>7 DEF AckLost, identityVars
  <2>2. Life(h)' = "ordered" /\ \A c \in Commands : c # h => Life(c)' = Life(c)
    <3>1. orders[h].reply = "pending"
      BY <1>2 DEF Pending
    <3>2. Life(h)' = "ordered"
      BY <1>5, <2>1, <3>1 DEF Life
    <3>3. ASSUME NEW c \in Commands, c # h PROVE Life(c)' = Life(c)
      BY <1>2, <1>5, <2>1, <3>3 DEF Life
    <3>. QED BY <3>2, <3>3
  <2>3. Lives' = [Lives EXCEPT ![h] = "ordered"] /\ Tolds' = Tolds
    BY <1>2, <2>1, <2>2 DEF Lives, Tolds, Told
  <2>4. Remote!AnswerLost(h)
    BY <1>2, <1>6, <2>3 DEF Remote!AnswerLost, Lives, Tolds
  <2>. QED BY <1>2, <2>4 DEF Remote!Next
<1>8. CASE AckCommand(h)
  <2>1. orders' = [orders EXCEPT ![h].reply = result]
    BY <1>8 DEF AckCommand
  <2>2. orders'[h].reply = result /\ \A c \in Commands \ {h} : orders'[c] = orders[c]
    BY <1>2, <2>1 DEF IInv, TypeOK
  <2>3. Life(h)' = "answered" /\ Told(h)' = result
    <3>1. orders'[h].reply \in {"done", "failed"} /\ orders'[h].reply = result
      BY <1>1, <2>2
    <3>. QED BY <1>5, <3>1 DEF Life, Told
  <2>4. ASSUME NEW c \in Commands, c # h PROVE Life(c)' = Life(c) /\ Told(c)' = Told(c)
    BY <1>2, <1>5, <2>2, <2>4 DEF Life, Told
  <2>5. /\ Lives' = [Lives EXCEPT ![h] = "answered"]
        /\ Tolds' = [Tolds EXCEPT ![h] = result]
    BY <1>2, <2>3, <2>4 DEF Lives, Tolds
  <2>6. Remote!Answer(h)
    BY <1>2, <1>6, <2>5 DEF Remote!Answer, Lives, Tolds
  <2>. QED BY <1>2, <2>6 DEF Remote!Next
<1>. QED BY <1>3, <1>7, <1>8

(* A restart gives up what was taken. *)
LEMMA BootSteps ==
  ASSUME IInv, Boot
  PROVE  Remote!Next
<1>1. batch' = <<>> /\ result' = "none" /\ UNCHANGED orders
  BY DEF Boot
<1>2. \A c \in Commands : c \notin ToSet(batch')
  BY <1>1 DEF ToSet
<1>3. \A c \in Commands :
        Life(c)' = IF Life(c) \in {"taken", "carried"} THEN "ordered" ELSE Life(c)
  BY <1>1, <1>2, LifeFacts DEF Life
<1>4. Tolds' = Tolds
  BY <1>1 DEF Tolds, Told
<1>5. Remote!Interrupted
  BY <1>1, <1>3, <1>4 DEF Remote!Interrupted, Lives, Tolds
<1>. QED BY <1>5 DEF Remote!Next

(* Identity takes a new order. *)
LEMMA IssueSteps ==
  ASSUME IInv, NEW c \in Commands, Issue(c)
  PROVE  Remote!Next
<1>1. /\ orders[c].reply = "none" /\ UNCHANGED <<batch, loop, result>>
      /\ orders'[c].reply = "pending" /\ \A d \in Commands \ {c} : orders'[d] = orders[d]
  BY DEF Issue, loopVars, IInv, TypeOK
<1>2. ~InBatch(c) /\ c \notin ToSet(batch)
  BY <1>1, LifeFacts
<1>3. Life(c) = "none" /\ Life(c)' = "ordered" /\ Told(c)' = Told(c)
  BY <1>1, <1>2 DEF Life, Told
<1>4. \A d \in Commands \ {c} : Life(d)' = Life(d) /\ Told(d)' = Told(d)
  BY <1>1 DEF Life, Told
<1>5. Lives' = [Lives EXCEPT ![c] = "ordered"] /\ Tolds' = Tolds
  BY <1>3, <1>4 DEF Lives, Tolds
<1>6. Remote!Order(c)
  BY <1>1, <1>3, <1>5 DEF Remote!Order, Lives, Tolds
<1>. QED BY <1>6 DEF Remote!Next

(* sync_task.cpp:225-296: whatever answers are lost, downloads fail and      *)
(* restarts come in between, the loop carries out one command at a time,     *)
(* tells the outcome it had, and never takes again one that it told of.      *)
THEOREM ImplementsOrders == Spec => ImplementsRemoteOrder
<1>1. Init => Remote!Init
  <2>. SUFFICES ASSUME Init PROVE Remote!Init
    OBVIOUS
  <2>1. \A c \in Commands : Life(c) = "none" /\ Told(c) = "none"
    BY DEF Init, Life, Told, ToSet
  <2>. QED BY <2>1 DEF Remote!Init, Init
<1>2. IInv /\ [Next]_vars => [Remote!Next]_Remote!vars
  <2>. SUFFICES ASSUME IInv, [Next]_vars PROVE Remote!Next \/ UNCHANGED Remote!vars
    OBVIOUS
  <2>1. ASSUME UNCHANGED <<orders, batch, result>>, loop' = loop \/ (loop # "ack" /\ loop' # "ack")
        PROVE  UNCHANGED Remote!vars
    BY <2>1, SameLife DEF Remote!vars
  <2>2. CASE \E c \in Commands : Issue(c)
    BY <2>2, IssueSteps
  <2>3. CASE AckLost \/ \E c \in Commands : AckCommand(c)
    BY <2>3, AnswerSteps
  <2>4. CASE Claim \/ Drop \/ EndBatch \/ MarkFirmwareValid \/ UNCHANGED vars
    BY <2>1, <2>4 DEF Claim, Drop, EndBatch, MarkFirmwareValid, vars, identityVars, loopVars
  <2>5. CASE Fetch
    BY <2>5, FetchSteps
  <2>6. CASE Execute
    <3>1. PICK r \in {"done", "failed"} : Answers(r)
      BY <2>6 DEF Execute, Reboots
    <3>. QED BY <2>6, <3>1, CarryOutSteps DEF Execute, identityVars
  <2>7. CASE BeginUpdate
    <3>1. loop = "run" /\ batch # <<>> /\ UNCHANGED <<orders, batch>>
      BY <2>7 DEF BeginUpdate
    <3>2. CASE loop' = "download" /\ UNCHANGED result
      BY <2>1, <3>1, <3>2
    <3>3. CASE \E r \in {"done", "failed"} : Answers(r)
      BY <3>1, <3>3, CarryOutSteps
    <3>. QED BY <2>7, <3>2, <3>3 DEF BeginUpdate
  <2>8. CASE Download
    <3>1. PICK r \in {"done", "failed"} : Answers(r)
      BY <2>8 DEF Download
    <3>. QED BY <2>8, <3>1, CarryOutSteps DEF Download, identityVars, IInv, TypeOK
  <2>9. CASE Restart \/ PowerCut
    BY <2>9, BootSteps DEF Restart, PowerCut
  <2>. QED BY <2>2, <2>3, <2>4, <2>5, <2>6, <2>7, <2>8, <2>9 DEF Next
<1>. QED BY <1>1, <1>2, Invariance, PTL DEF Spec, ImplementsRemoteOrder, Remote!Spec

=============================================================================
