------------------------ MODULE RuntimeConfigProofs ------------------------
(***************************************************************************)
(* Proofs about RuntimeConfig, for every set of keys and wirings, every    *)
(* bound on Identity's edits, with and without write failures and power    *)
(* cuts: every variable keeps its type, and what the appliance runs with   *)
(* is what a reboot would load.                                            *)
(***************************************************************************)
EXTENDS RuntimeConfig, TLAPS

(* The state mutex has one holder at a time. *)
OneWriter ==
  \A t, u \in Tasks : pc[t] \in Writing /\ pc[u] \in Writing => t = u

(* By the time the secrets are written, config.json holds the new config. *)
DocIsDraft ==
  \A t \in Tasks : pc[t] \in KeyWriting
                     => doc = [there |-> TRUE, body |-> Public(draft[t])]

(* A config that lost its credentials while va_policy asks Identity has no *)
(* key either, so the overlay it saves has none.                           *)
OverlayIsClean ==
  pc["va_policy"] \in {"fetch", "overlay"} => config.configured \/ config.key = NoKey

IInv == TypeOK /\ OneWriter /\ DocIsDraft /\ OverlayIsClean /\ StoredIsLive

-----------------------------------------------------------------------------
(* The configurations that the actions build *)

(* The configurations the code computes are configurations. *)
LEMMA ConfigTypes ==
  ASSUME NEW c \in Configs
  PROVE  /\ Factory \in Configs /\ ~Factory.configured /\ Factory.key = NoKey
         /\ Public(c) \in Configs
         /\ ResetToSetup(c) \in Configs
         /\ ~ResetToSetup(c).configured /\ ResetToSetup(c).key = NoKey
         /\ [Public(c) EXCEPT !.key = c.key] = c
         /\ \A k \in Keys \cup {NoKey} : [c EXCEPT !.key = k] \in Configs
<1>1. FactoryWiring \in Wirings
  BY WiringAssumption DEF FactoryWiring
<1>2. Factory \in Configs /\ ~Factory.configured /\ Factory.key = NoKey
  BY <1>1, VersionAssumption DEF Factory, Configs, Versions
<1> QED
  BY <1>2 DEF Configs, Public, ResetToSetup

(* What is loaded from the two stores is a configuration. *)
LEMMA LoadType ==
  ASSUME TypeOK
  PROVE  LoadConfig \in Configs
<1>1. Factory \in Configs /\ doc.body \in Configs /\ nvsKey \in Keys \cup {NoKey}
  BY ConfigTypes DEF TypeOK
<1>2. (IF doc.there THEN doc.body ELSE Factory) \in Configs
  BY <1>1
<1> QED
  BY <1>1, <1>2, ConfigTypes DEF LoadConfig

(* The invariant holds at the start. *)
LEMMA InitIInv == Init => IInv
<1> SUFFICES ASSUME Init PROVE IInv
  OBVIOUS
<1>1. PICK k \in Keys : config = [Factory EXCEPT !.configured = TRUE, !.key = k]
  BY DEF Init
<1>2. config \in Configs /\ config.configured /\ config.key \in Keys
  <2>1. Factory \in Configs
    BY <1>1, ConfigTypes, WiringAssumption, VersionAssumption
       DEF Factory, Configs, Versions, FactoryWiring
  <2> QED
    BY <1>1, <2>1 DEF Configs
<1>3. Public(config) \in Configs /\ Factory \in Configs /\ Factory.key = NoKey
      /\ [Public(config) EXCEPT !.key = config.key] = config
  BY <1>2, ConfigTypes
<1>4. TypeOK
  <2>1. config \in Configs /\ etag \in Versions /\ version \in Versions
    BY <1>2, VersionAssumption DEF Init, Versions
  <2>2. doc \in [there : BOOLEAN, body : Configs] /\ nvsKey \in Keys \cup {NoKey}
        /\ drivers \in Wirings
    BY <1>2, <1>3 DEF Init, Configs
  <2>3. pc \in [Tasks -> Steps] /\ draft \in [Tasks -> Configs]
        /\ \A t \in Tasks : draft[t].key = NoKey
    BY <1>3 DEF Init, Steps
  <2>4. torn \in BOOLEAN /\ crossed \in BOOLEAN /\ revoked \in SUBSET Keys
    BY DEF Init
  <2> QED
    BY <2>1, <2>2, <2>3, <2>4 DEF TypeOK
<1>5. OneWriter /\ DocIsDraft /\ OverlayIsClean
  BY DEF Init, OneWriter, DocIsDraft, OverlayIsClean, Writing, Replacing, KeyWriting, Tasks
<1>6. StoredIsLive
  <2>1. LoadConfig = [Public(config) EXCEPT !.key = config.key]
    BY DEF Init, LoadConfig
  <2> QED
    BY <2>1, <1>3 DEF StoredIsLive
<1> QED
  BY <1>4, <1>5, <1>6 DEF IInv

-----------------------------------------------------------------------------
(* What a task does to its own place and draft *)

(* Taking a draft in hand keeps the types of steps and drafts. *)
LEMMA HoldType ==
  ASSUME TypeOK, NEW t \in Tasks, NEW c \in Configs, NEW step \in Steps,
         ~c.configured => c.key = NoKey,
         Hold(t, c, step)
  PROVE  /\ pc' \in [Tasks -> Steps] /\ draft' \in [Tasks -> Configs]
         /\ \A u \in Tasks : ~draft'[u].configured => draft'[u].key = NoKey
BY DEF TypeOK, Hold, Goto

(* A task that stops keeps them. *)
LEMMA StopType ==
  ASSUME TypeOK, NEW t \in Tasks, Stop(t)
  PROVE  /\ pc' \in [Tasks -> Steps] /\ draft' \in [Tasks -> Configs]
         /\ \A u \in Tasks : ~draft'[u].configured => draft'[u].key = NoKey
<1>1. Factory \in Configs /\ Factory.key = NoKey
  BY ConfigTypes DEF TypeOK
<1>2. "idle" \in Steps
  BY DEF Steps
<1> QED
  BY <1>1, <1>2, HoldType DEF Stop

(* A task that goes on with its draft keeps them. *)
LEMMA GotoType ==
  ASSUME TypeOK, NEW t \in Tasks, NEW step \in Steps, Goto(t, step), UNCHANGED draft
  PROVE  /\ pc' \in [Tasks -> Steps] /\ draft' \in [Tasks -> Configs]
         /\ \A u \in Tasks : ~draft'[u].configured => draft'[u].key = NoKey
BY DEF TypeOK, Goto

(* A task moves between two steps that do not hold the mutex. *)
LEMMA OutsideMutex ==
  ASSUME IInv, NEW t \in Tasks, NEW step \in Steps \ Writing,
         pc[t] \notin Writing, Goto(t, step),
         \A u \in Tasks : u # t => draft'[u] = draft[u],
         UNCHANGED <<config, storeVars>>
  PROVE  OneWriter' /\ DocIsDraft' /\ StoredIsLive'
<1>1. \A u \in Tasks : /\ pc'[u] \in Writing => pc'[u] = pc[u] /\ u # t
                       /\ pc[u] \in Writing => pc'[u] = pc[u]
  BY DEF IInv, TypeOK, Goto
<1>2. OneWriter'
  BY <1>1 DEF IInv, OneWriter
<1>3. DocIsDraft'
  <2> SUFFICES ASSUME NEW u \in Tasks, pc'[u] \in KeyWriting
               PROVE  doc' = [there |-> TRUE, body |-> Public(draft[u])']
    BY DEF DocIsDraft
  <2>1. u # t /\ pc[u] \in KeyWriting
    BY <1>1 DEF Writing
  <2> QED
    BY <2>1 DEF IInv, DocIsDraft, Public, storeVars
<1>4. StoredIsLive'
  <2>1. Locked' <=> Locked
    BY <1>1 DEF Locked
  <2>2. LoadConfig' = LoadConfig
    BY DEF LoadConfig, storeVars
  <2> QED
    BY <2>1, <2>2 DEF IInv, StoredIsLive, storeVars
<1> QED
  BY <1>2, <1>3, <1>4

(* The same for a task that stops there, and what it leaves to be shown. *)
LEMMA StopOutsideMutex ==
  ASSUME IInv, NEW t \in Tasks, pc[t] \notin Writing, Stop(t),
         UNCHANGED <<config, storeVars>>
  PROVE  OneWriter' /\ DocIsDraft' /\ StoredIsLive' /\ OverlayIsClean'
<1>1. "idle" \in Steps \ Writing /\ Goto(t, "idle")
  BY DEF Steps, Writing, Replacing, KeyWriting, Stop, Hold
<1>2. \A u \in Tasks : u # t => draft'[u] = draft[u]
  BY DEF IInv, TypeOK, Stop, Hold
<1>3. OverlayIsClean'
  BY <1>1 DEF IInv, TypeOK, OverlayIsClean, Goto, Tasks
<1> QED
  BY <1>1, <1>2, <1>3, OutsideMutex

-----------------------------------------------------------------------------
(* The steps outside the state mutex *)

(* The steps are different from one another. *)
LEMMA StepNames ==
  /\ {"idle", "fetch", "overlay", "save", "drop", "apply"} = Steps \ Writing
  /\ Replacing \cup KeyWriting = Writing /\ Writing \subseteq Steps
BY DEF Steps, Writing, Replacing, KeyWriting

(* Drafting a save in /setup preserves the invariant. *)
LEMMA DraftSteps ==
  ASSUME IInv,
         \/ \E w \in Wirings : EditWiring(w)
         \/ \E k \in Keys : ManualSetup(k) \/ Claim(k)
  PROVE  IInv'
<1>1. "httpd" \in Tasks /\ "httpd" # "va_policy" /\ "va_policy" \in Tasks
  BY DEF Tasks
<1>2. pc["httpd"] = "idle" /\ UNCHANGED <<config, etag, storeVars, driverVars, identityVars>>
  BY DEF EditWiring, ManualSetup, Claim
<1>3. PICK c \in Configs : c.configured /\ Hold("httpd", c, "save")
  <2>1. CASE \E w \in Wirings : EditWiring(w)
    <3>1. PICK w \in Wirings : EditWiring(w)
      BY <2>1
    <3>2. [config EXCEPT !.wiring = w] \in Configs
          /\ [config EXCEPT !.wiring = w].configured
      BY <3>1 DEF IInv, TypeOK, Configs, EditWiring
    <3> QED
      BY <3>1, <3>2 DEF EditWiring
  <2>2. CASE \E k \in Keys : ManualSetup(k)
    <3>1. PICK k \in Keys : ManualSetup(k)
      BY <2>2
    <3> DEFINE c == [Factory EXCEPT !.configured = TRUE, !.key = k,
                                    !.wiring = config.wiring]
    <3>2. Factory \in Configs /\ config \in Configs
      BY ConfigTypes DEF IInv, TypeOK
    <3>3. c \in Configs /\ c.configured
      BY <3>2 DEF Configs
    <3> QED
      BY <3>1, <3>3 DEF ManualSetup
  <2>3. CASE \E k \in Keys : Claim(k)
    <3>1. PICK k \in Keys : Claim(k)
      BY <2>3
    <3>2. PICK r \in {0, version} :
            Hold("httpd", [configured |-> TRUE, key |-> k, remote |-> r,
                           wiring |-> config.wiring], "save")
      BY <3>1 DEF Claim
    <3>3. r \in Versions /\ config.wiring \in Wirings
      BY VersionAssumption DEF IInv, TypeOK, Versions, Configs
    <3> QED
      BY <3>2, <3>3 DEF Configs
  <2> QED
    BY <2>1, <2>2, <2>3
<1>4. TypeOK'
  BY <1>1, <1>2, <1>3, HoldType, StepNames DEF IInv, TypeOK, storeVars, driverVars, identityVars
<1>5. OneWriter' /\ DocIsDraft' /\ StoredIsLive'
  BY <1>1, <1>2, <1>3, OutsideMutex, StepNames DEF IInv, TypeOK, Hold
<1>6. OverlayIsClean'
  BY <1>1, <1>2, <1>3 DEF IInv, TypeOK, OverlayIsClean, Hold, Goto
<1> QED
  BY <1>4, <1>5, <1>6 DEF IInv

(* Fetching a policy or a device configuration preserves it. *)
LEMMA FetchSteps ==
  ASSUME IInv, NEW t \in Tasks,
         StartFetch(t) \/ FetchIdle(t) \/ FetchRefused(t)
  PROVE  IInv'
<1>1. UNCHANGED <<config, etag, storeVars, driverVars, identityVars>>
  BY DEF StartFetch, FetchIdle, FetchRefused
<1>2. pc[t] \notin Writing
  BY DEF StartFetch, FetchIdle, FetchRefused, Writing, Replacing, KeyWriting
<1>3. CASE StartFetch(t)
  <2>1. Hold(t, config, "fetch") /\ config \in Configs /\ config.configured
    BY <1>3 DEF StartFetch, IInv, TypeOK
  <2>2. TypeOK'
    BY <1>1, <2>1, HoldType, StepNames DEF IInv, TypeOK, storeVars, driverVars, identityVars
  <2>3. OneWriter' /\ DocIsDraft' /\ StoredIsLive'
    BY <1>1, <1>2, <2>1, OutsideMutex, StepNames DEF IInv, TypeOK, Hold
  <2>4. OverlayIsClean'
    BY <1>1, <2>1 DEF OverlayIsClean
  <2> QED
    BY <2>2, <2>3, <2>4 DEF IInv
<1>4. CASE FetchIdle(t)
  <2>1. TypeOK'
    BY <1>1, <1>4, StopType DEF IInv, TypeOK, storeVars, driverVars, identityVars, FetchIdle
  <2> QED
    BY <1>1, <1>2, <1>4, <2>1, StopOutsideMutex DEF IInv, FetchIdle
<1>5. CASE FetchRefused(t)
  <2>1. Goto(t, "drop") /\ UNCHANGED draft
    BY <1>5 DEF FetchRefused
  <2>2. TypeOK'
    BY <1>1, <2>1, GotoType, StepNames DEF IInv, TypeOK, storeVars, driverVars, identityVars
  <2>3. OneWriter' /\ DocIsDraft' /\ StoredIsLive'
    BY <1>1, <1>2, <2>1, OutsideMutex, StepNames
  <2>4. OverlayIsClean'
    BY <1>1, <2>1 DEF IInv, TypeOK, OverlayIsClean, Goto, Tasks
  <2> QED
    BY <2>2, <2>3, <2>4 DEF IInv
<1> QED
  BY <1>3, <1>4, <1>5

(* Overlaying a fetched configuration preserves it. *)
LEMMA OverlaySteps ==
  ASSUME IInv, FetchAnswered \/ Overlay
  PROVE  IInv'
<1> DEFINE p == "va_policy"
<1>1. p \in Tasks /\ UNCHANGED <<config, storeVars, driverVars, identityVars>>
  BY DEF FetchAnswered, Overlay, Tasks
<1>2. pc[p] \in {"fetch", "overlay"} /\ pc[p] \notin Writing
  BY DEF FetchAnswered, Overlay, Writing, Replacing, KeyWriting
<1>3. config \in Configs /\ (config.configured \/ config.key = NoKey)
      /\ version \in Versions /\ etag \in Versions /\ draft[p] \in Configs
      /\ (~draft[p].configured => draft[p].key = NoKey)
  BY <1>1, <1>2 DEF IInv, TypeOK, OverlayIsClean
<1>4. etag' \in Versions
  BY <1>3 DEF FetchAnswered, Overlay
<1>5. CASE Overlay /\ Stop(p)
  <2>1. TypeOK'
    BY <1>1, <1>4, <1>5, StopType DEF IInv, TypeOK, storeVars, driverVars, identityVars
  <2> QED
    BY <1>1, <1>2, <1>5, <2>1, StopOutsideMutex DEF IInv
<1>6. ASSUME NEW c \in Configs, ~c.configured => c.key = NoKey,
             NEW step \in {"overlay", "save"}, Hold(p, c, step)
      PROVE  IInv'
  <2>1. TypeOK'
    BY <1>1, <1>4, <1>6, HoldType, StepNames DEF IInv, TypeOK, storeVars, driverVars, identityVars
  <2>2. OneWriter' /\ DocIsDraft' /\ StoredIsLive'
    BY <1>1, <1>2, <1>6, OutsideMutex, StepNames DEF IInv, TypeOK, Hold
  <2>3. OverlayIsClean'
    BY <1>1, <1>3 DEF OverlayIsClean
  <2> QED
    BY <2>1, <2>2, <2>3 DEF IInv
<1>7. CASE FetchAnswered
  <2> DEFINE c == [draft[p] EXCEPT !.remote = version]
  <2>1. c \in Configs /\ (~c.configured => c.key = NoKey)
    BY <1>3 DEF Configs
  <2> QED
    BY <1>6, <1>7, <2>1 DEF FetchAnswered
<1>8. CASE Overlay /\ ~Stop(p)
  <2> DEFINE c == [config EXCEPT !.remote = draft[p].remote]
  <2>1. c \in Configs /\ (~c.configured => c.key = NoKey)
    BY <1>3 DEF Configs
  <2> QED
    BY <1>6, <1>8, <2>1 DEF Overlay
<1> QED
  BY <1>5, <1>7, <1>8

-----------------------------------------------------------------------------
(* The steps under the state mutex *)

(* Whoever holds the mutex, or takes it when it is free, is alone with it. *)
LEMMA InsideMutex ==
  ASSUME IInv, NEW t \in Tasks, NEW step \in Steps, Goto(t, step),
         pc[t] \in Writing \/ ~Locked
  PROVE  OneWriter' /\ pc'[t] = step
         /\ \A u \in Tasks : /\ u # t => pc'[u] = pc[u]
                             /\ pc'[u] \in Writing => u = t
<1>1. pc'[t] = step /\ \A u \in Tasks : u # t => pc'[u] = pc[u]
  BY DEF IInv, TypeOK, Goto
<1>2. \A u \in Tasks : u # t => pc[u] \notin Writing
  BY DEF IInv, OneWriter, Locked
<1>3. \A u \in Tasks : pc'[u] \in Writing => u = t
  BY <1>1, <1>2
<1> QED
  BY <1>1, <1>3 DEF OneWriter

(* Taking the mutex to save or to reset preserves it. *)
LEMMA BeginSteps ==
  ASSUME IInv, NEW t \in Tasks, BeginSave(t) \/ BeginReset(t)
  PROVE  IInv'
<1> DEFINE step == IF BeginSave(t) THEN "replace" ELSE "resetReplace"
<1>1. Goto(t, step) /\ ~Locked /\ RemoveDoc
      /\ UNCHANGED <<config, etag, driverVars, identityVars>>
  BY DEF BeginSave, BeginReset, Hold
<1>2. step \in Steps /\ step \in Writing /\ step \notin KeyWriting
      /\ step \notin {"fetch", "overlay"}
  BY DEF Steps, Writing, Replacing, KeyWriting
<1>3. /\ pc' \in [Tasks -> Steps] /\ draft' \in [Tasks -> Configs]
      /\ \A u \in Tasks : ~draft'[u].configured => draft'[u].key = NoKey
  <2>1. CASE BeginSave(t)
    BY <1>1, <1>2, <2>1, GotoType DEF IInv, BeginSave
  <2>2. CASE BeginReset(t)
    <3>1. ResetToSetup(config) \in Configs /\ ResetToSetup(config).key = NoKey
      BY ConfigTypes DEF IInv, TypeOK
    <3>2. "resetReplace" \in Steps
      BY DEF Steps, Writing, Replacing
    <3> QED
      BY <2>2, <3>1, <3>2, HoldType DEF IInv, BeginReset
  <2> QED
    BY <2>1, <2>2 DEF BeginSave, BeginReset
<1>4. TypeOK'
  <2>1. Factory \in Configs /\ Public(Factory) \in Configs
    BY ConfigTypes DEF IInv, TypeOK
  <2> QED
    BY <1>1, <1>3, <2>1 DEF IInv, TypeOK, RemoveDoc, driverVars, identityVars
<1>5. OneWriter' /\ pc'[t] = step /\ \A u \in Tasks : /\ u # t => pc'[u] = pc[u]
                                                      /\ pc'[u] \in Writing => u = t
  BY <1>1, <1>2, InsideMutex
<1>6. DocIsDraft'
  BY <1>2, <1>5 DEF DocIsDraft, Writing
<1>7. StoredIsLive'
  BY <1>2, <1>5 DEF StoredIsLive, Locked
<1>8. OverlayIsClean'
  BY <1>1, <1>2, <1>5 DEF IInv, OverlayIsClean, Tasks
<1> QED
  BY <1>4, <1>5, <1>6, <1>7, <1>8 DEF IInv

(* Ending without a write, or after the hook, preserves the invariant. *)
LEMMA NoSaveSteps ==
  ASSUME IInv, NEW t \in Tasks, AlreadyReset(t) \/ WriteFails(t) \/ ApplyDrivers(t)
  PROVE  IInv'
<1>1. Stop(t) /\ UNCHANGED <<config, etag, storeVars, identityVars>>
      /\ pc[t] \notin Writing
  BY DEF AlreadyReset, WriteFails, ApplyDrivers, Abort, Writing, Replacing, KeyWriting
<1>2. drivers' \in Wirings /\ crossed' \in BOOLEAN
  BY DEF IInv, TypeOK, Configs, AlreadyReset, WriteFails, ApplyDrivers, Abort, driverVars
<1>3. TypeOK'
  BY <1>1, <1>2, StopType DEF IInv, TypeOK, storeVars, driverVars, identityVars
<1> QED
  BY <1>1, <1>3, StopOutsideMutex DEF IInv

(* Replacing the document preserves it. *)
LEMMA ReplaceSteps ==
  ASSUME IInv, NEW t \in Tasks, ReplaceDoc(t)
  PROVE  IInv'
<1> DEFINE step == IF pc[t] = "replace" THEN "secrets" ELSE "resetSecrets"
<1>1. Goto(t, step) /\ pc[t] \in Writing
      /\ doc' = [there |-> TRUE, body |-> Public(draft[t])]
      /\ UNCHANGED <<config, etag, nvsKey, torn, driverVars, draft, identityVars>>
  BY DEF ReplaceDoc, Writing
<1>2. step \in Steps /\ step \in Writing /\ step \notin {"fetch", "overlay"}
  BY DEF Steps, Writing, KeyWriting
<1>3. TypeOK'
  <2>1. Public(draft[t]) \in Configs
    BY ConfigTypes DEF IInv, TypeOK
  <2> QED
    BY <1>1, <1>2, <2>1, GotoType DEF IInv, TypeOK, driverVars, identityVars
<1>4. OneWriter' /\ pc'[t] = step /\ \A u \in Tasks : /\ u # t => pc'[u] = pc[u]
                                                      /\ pc'[u] \in Writing => u = t
  BY <1>1, <1>2, InsideMutex
<1>5. DocIsDraft'
  BY <1>1, <1>4 DEF DocIsDraft, Writing, Public
<1>6. StoredIsLive'
  BY <1>2, <1>4 DEF StoredIsLive, Locked
<1>7. OverlayIsClean'
  BY <1>1, <1>2, <1>4 DEF IInv, OverlayIsClean, Tasks
<1> QED
  BY <1>3, <1>4, <1>5, <1>6, <1>7 DEF IInv

(* A failed write preserves it. *)
LEMMA FailedSteps ==
  ASSUME IInv, NEW t \in Tasks, RenameFails(t) \/ SecretsFail(t)
  PROVE  IInv'
<1>1. Stop(t) /\ pc[t] \in Writing /\ torn' = TRUE
      /\ UNCHANGED <<config, etag, driverVars, identityVars, doc>>
  BY DEF RenameFails, SecretsFail, Abort, Writing
<1>2. nvsKey' \in Keys \cup {NoKey}
  BY DEF IInv, TypeOK, Configs, RenameFails, SecretsFail
<1>3. TypeOK'
  BY <1>1, <1>2, StopType DEF IInv, TypeOK, driverVars, identityVars
<1>4. Goto(t, "idle") /\ "idle" \in Steps /\ "idle" \notin Writing
  BY <1>1, StepNames DEF Stop, Hold
<1>5. OneWriter' /\ pc'[t] = "idle" /\ \A u \in Tasks : /\ u # t => pc'[u] = pc[u]
                                                        /\ pc'[u] \in Writing => u = t
  BY <1>1, <1>4, InsideMutex
<1>6. DocIsDraft' /\ StoredIsLive'
  BY <1>1, <1>4, <1>5 DEF DocIsDraft, StoredIsLive, Writing
<1>7. OverlayIsClean'
  BY <1>1, <1>5 DEF IInv, OverlayIsClean, Tasks
<1> QED
  BY <1>3, <1>5, <1>6, <1>7 DEF IInv

(* Writing the secrets preserves it. *)
LEMMA SecretsSteps ==
  ASSUME IInv, NEW t \in Tasks, WriteSecrets(t)
  PROVE  IInv'
<1> DEFINE step == IF pc[t] = "secrets" THEN "apply" ELSE "idle"
<1>1. Goto(t, step) /\ pc[t] \in KeyWriting /\ pc[t] \in Writing
      /\ nvsKey' = draft[t].key /\ config' = draft[t] /\ torn' = FALSE
      /\ UNCHANGED <<doc, drivers, identityVars>>
  BY DEF WriteSecrets, Writing, Stop, Hold
<1>2. step \in Steps /\ step \notin Writing /\ step \notin {"fetch", "overlay"}
  BY StepNames
<1>3. draft[t] \in Configs /\ (~draft[t].configured => draft[t].key = NoKey)
  BY DEF IInv, TypeOK
<1>4. TypeOK'
  <2>1. /\ pc' \in [Tasks -> Steps] /\ draft' \in [Tasks -> Configs]
        /\ \A u \in Tasks : ~draft'[u].configured => draft'[u].key = NoKey
    <3>1. CASE Stop(t)
      BY <3>1, StopType DEF IInv
    <3>2. CASE UNCHANGED draft
      BY <1>1, <1>2, <3>2, GotoType DEF IInv
    <3> QED
      BY <3>1, <3>2 DEF WriteSecrets
  <2>2. etag' \in Versions
    BY VersionAssumption DEF WriteSecrets, IInv, TypeOK, Versions
  <2>3. nvsKey' \in Keys \cup {NoKey}
    BY <1>1, <1>3 DEF Configs
  <2>4. crossed' \in BOOLEAN
    BY DEF WriteSecrets, HookDue, IInv, TypeOK
  <2> QED
    BY <1>1, <1>3, <2>1, <2>2, <2>3, <2>4 DEF IInv, TypeOK, identityVars
<1>5. OneWriter' /\ pc'[t] = step /\ \A u \in Tasks : /\ u # t => pc'[u] = pc[u]
                                                      /\ pc'[u] \in Writing => u = t
  BY <1>1, <1>2, InsideMutex
<1>6. DocIsDraft'
  BY <1>2, <1>5 DEF DocIsDraft, Writing
<1>7. StoredIsLive'
  <2>1. doc = [there |-> TRUE, body |-> Public(draft[t])]
    BY <1>1 DEF IInv, DocIsDraft
  <2>2. LoadConfig' = [Public(draft[t]) EXCEPT !.key = draft[t].key]
    BY <1>1, <2>1 DEF LoadConfig
  <2> QED
    BY <1>1, <1>3, <2>2, ConfigTypes DEF StoredIsLive
<1>8. OverlayIsClean'
  BY <1>1, <1>3 DEF OverlayIsClean
<1> QED
  BY <1>4, <1>5, <1>6, <1>7, <1>8 DEF IInv

(* A power cut preserves it. *)
LEMMA RebootStep ==
  ASSUME IInv, Reboot
  PROVE  IInv'
<1>1. LoadConfig \in Configs /\ Factory \in Configs /\ Factory.key = NoKey
  BY LoadType, ConfigTypes DEF IInv, TypeOK
<1>2. LoadConfig' = LoadConfig
  BY DEF Reboot, LoadConfig
<1>3. TypeOK'
  <2>1. drivers' \in Wirings
    BY <1>1 DEF Reboot, Configs
  <2>2. /\ pc' \in [Tasks -> Steps] /\ draft' \in [Tasks -> Configs]
        /\ \A u \in Tasks : ~draft'[u].configured => draft'[u].key = NoKey
    BY <1>1 DEF Reboot, Steps
  <2>3. config' \in Configs
    BY <1>1 DEF Reboot
  <2>4. etag' \in Versions
    BY VersionAssumption DEF Reboot, Versions
  <2>5. torn' \in BOOLEAN /\ crossed' \in BOOLEAN
    BY DEF Reboot
  <2> QED
    BY <2>1, <2>2, <2>3, <2>4, <2>5 DEF Reboot, IInv, TypeOK, identityVars
<1>4. OneWriter' /\ DocIsDraft' /\ OverlayIsClean'
  BY DEF Reboot, OneWriter, DocIsDraft, OverlayIsClean, Writing, Replacing, KeyWriting,
         Tasks
<1>5. StoredIsLive'
  BY <1>2 DEF Reboot, StoredIsLive
<1> QED
  BY <1>3, <1>4, <1>5 DEF IInv

(* Edits and revocations at Identity preserve it. *)
LEMMA IdentitySteps ==
  ASSUME IInv, EditDeviceConfig \/ (\E k \in Keys : Revoke(k)) \/ UNCHANGED vars
  PROVE  IInv'
<1>1. UNCHANGED <<config, etag, storeVars, driverVars, taskVars>>
  BY DEF EditDeviceConfig, Revoke, vars
<1>2. version' \in Versions /\ revoked' \in SUBSET Keys
  BY VersionAssumption DEF EditDeviceConfig, Revoke, vars, identityVars, IInv, TypeOK,
                           Versions
<1>3. TypeOK'
  BY <1>1, <1>2 DEF IInv, TypeOK, storeVars, driverVars, taskVars
<1>4. OneWriter' /\ DocIsDraft' /\ OverlayIsClean'
  BY <1>1 DEF IInv, OneWriter, DocIsDraft, OverlayIsClean, Public, storeVars, taskVars
<1>5. StoredIsLive'
  BY <1>1 DEF IInv, StoredIsLive, LoadConfig, Locked, storeVars, taskVars
<1> QED
  BY <1>3, <1>4, <1>5 DEF IInv

-----------------------------------------------------------------------------
(* The theorems *)

(* Every step preserves the invariant. *)
LEMMA NextIInv == IInv /\ [Next]_vars => IInv'
<1> SUFFICES ASSUME IInv, [Next]_vars PROVE IInv'
  OBVIOUS
<1>1. ASSUME NEW t \in Tasks, SaveStep(t) PROVE IInv'
  BY <1>1, BeginSteps, NoSaveSteps, ReplaceSteps, FailedSteps, SecretsSteps DEF SaveStep
<1>2. ASSUME NEW t \in Tasks, StartFetch(t) \/ FetchIdle(t) \/ FetchRefused(t)
      PROVE  IInv'
  BY <1>2, FetchSteps
<1>3. CASE (\E w \in Wirings : EditWiring(w)) \/ (\E k \in Keys : ManualSetup(k) \/ Claim(k))
  BY <1>3, DraftSteps
<1>4. CASE FetchAnswered \/ Overlay
  BY <1>4, OverlaySteps
<1>5. CASE EditDeviceConfig \/ (\E k \in Keys : Revoke(k)) \/ UNCHANGED vars
  BY <1>5, IdentitySteps
<1>6. CASE Reboot
  BY <1>6, RebootStep
<1>7. CASE Next
  <2>1. CASE \E t \in Tasks : StartFetch(t) \/ FetchIdle(t) \/ FetchRefused(t) \/ SaveStep(t)
    <3>1. PICK t \in Tasks : StartFetch(t) \/ FetchIdle(t) \/ FetchRefused(t) \/ SaveStep(t)
      BY <2>1
    <3> QED
      BY <3>1, <1>1, <1>2
  <2>2. CASE \E k \in Keys : ManualSetup(k) \/ Claim(k) \/ Revoke(k)
    <3>1. PICK k \in Keys : ManualSetup(k) \/ Claim(k) \/ Revoke(k)
      BY <2>2
    <3> QED
      BY <3>1, <1>3, <1>5
  <2> QED
    BY <1>3, <1>4, <1>5, <1>6, <1>7, <2>1, <2>2 DEF Next
<1> QED
  BY <1>5, <1>7

(* Every variable of the configuration store keeps its type. *)
THEOREM TypeCorrect == Spec => []TypeOK
<1>1. IInv => TypeOK
  BY DEF IInv
<1> QED
  BY InitIInv, NextIInv, <1>1, PTL DEF Spec

(* SaveConfig: with any number of overlapping saves, resets, failed writes  *)
(* and power cuts, the running configuration is the stored one whenever the *)
(* mutex is free and the last save did not fail halfway.                    *)
THEOREM StoredMatchesLive == Spec => []StoredIsLive
<1>1. IInv => StoredIsLive
  BY DEF IInv
<1> QED
  BY InitIInv, NextIInv, <1>1, PTL DEF Spec

-----------------------------------------------------------------------------
(* The drivers *)

(* As long as no hooks overlapped, a hook that is due is the only one and was *)
(* given the running wiring; a reset leaves the wiring alone.                 *)
HookIsCurrent ==
  ~crossed => \A t, u \in Tasks :
                pc[t] = "apply" => /\ draft[t].wiring = config.wiring
                                   /\ pc[u] = "apply" => t = u

ResetKeepsWiring ==
  \A t \in Tasks : pc[t] \in {"resetReplace", "resetSecrets"}
                     => draft[t].wiring = config.wiring

DriverInv == DriversFollowConfig /\ HookIsCurrent /\ ResetKeepsWiring

(* The drivers start with the loaded configuration. *)
LEMMA InitDriver == Init => DriverInv
BY DEF Init, DriverInv, DriversFollowConfig, HookIsCurrent, ResetKeepsWiring, Tasks

(* A step that leaves config, the drivers and every due hook alone. *)
LEMMA DriverQuiet ==
  ASSUME IInv, DriverInv, UNCHANGED <<config, driverVars>>,
         \A t \in Tasks : pc'[t] = "apply" <=> pc[t] = "apply",
         \A t \in Tasks : pc'[t] \in {"apply", "resetReplace", "resetSecrets"}
                            => draft'[t] = draft[t],
         \A t \in Tasks : pc'[t] \in {"resetReplace", "resetSecrets"}
                            => pc[t] \in {"resetReplace", "resetSecrets"}
  PROVE  DriverInv'
<1>1. HookDue' <=> HookDue
  BY DEF HookDue
<1>2. DriversFollowConfig'
  BY <1>1 DEF DriverInv, DriversFollowConfig, driverVars
<1>3. HookIsCurrent'
  BY DEF DriverInv, HookIsCurrent, driverVars
<1>4. ResetKeepsWiring'
  BY DEF DriverInv, ResetKeepsWiring
<1> QED
  BY <1>2, <1>3, <1>4 DEF DriverInv

(* Steps that are no save keep the drivers' invariant. *)
LEMMA DriverQuietSteps ==
  ASSUME IInv, DriverInv, NEW t \in Tasks, NEW c, NEW step \in Steps,
         UNCHANGED <<config, driverVars>>,
         pc[t] # "apply", step \notin {"apply", "resetReplace", "resetSecrets"},
         Hold(t, c, step)
  PROVE  DriverInv'
<1>1. pc' = [pc EXCEPT ![t] = step] /\ draft' = [draft EXCEPT ![t] = c]
  BY DEF Hold, Goto
<1>2. \A u \in Tasks : u # t => pc'[u] = pc[u] /\ draft'[u] = draft[u]
  BY <1>1 DEF IInv, TypeOK
<1>3. pc'[t] = step
  BY <1>1 DEF IInv, TypeOK
<1> QED
  BY <1>2, <1>3, DriverQuiet

(* WriteSecrets: the only step that changes the running wiring. *)
LEMMA DriverSave ==
  ASSUME IInv, DriverInv, NEW t \in Tasks, WriteSecrets(t)
  PROVE  DriverInv'
<1>1. config' = draft[t] /\ drivers' = drivers /\ pc[t] \in KeyWriting
  BY DEF WriteSecrets
<1>2. \A u \in Tasks : u # t => pc[u] \notin Writing
  BY <1>1 DEF IInv, OneWriter, Writing
<1>3. CASE pc[t] = "secrets"
  <2>1. pc' = [pc EXCEPT ![t] = "apply"] /\ draft' = draft /\ crossed' = HookDue
    BY <1>3 DEF WriteSecrets, Goto
  <2>2. pc'[t] = "apply" /\ \A u \in Tasks : u # t => pc'[u] = pc[u]
    BY <2>1 DEF IInv, TypeOK
  <2>3. DriversFollowConfig'
    BY <2>2 DEF DriversFollowConfig, HookDue
  <2>4. HookIsCurrent'
    BY <1>1, <2>1, <2>2 DEF HookIsCurrent, HookDue
  <2>5. ResetKeepsWiring'
    BY <1>2, <2>2 DEF ResetKeepsWiring, Writing, Replacing, KeyWriting
  <2> QED
    BY <2>3, <2>4, <2>5 DEF DriverInv
<1>4. CASE pc[t] = "resetSecrets"
  <2>1. /\ pc' = [pc EXCEPT ![t] = "idle"] /\ draft' = [draft EXCEPT ![t] = Factory]
        /\ crossed' = crossed
    BY <1>4 DEF WriteSecrets, Stop, Hold, Goto
  <2>2. pc'[t] = "idle" /\ \A u \in Tasks : u # t => pc'[u] = pc[u] /\ draft'[u] = draft[u]
    BY <2>1 DEF IInv, TypeOK
  <2>3. config'.wiring = config.wiring
    BY <1>1, <1>4 DEF DriverInv, ResetKeepsWiring
  <2>4. HookDue' <=> HookDue
    BY <1>4, <2>2 DEF HookDue
  <2>5. DriversFollowConfig'
    BY <1>1, <2>1, <2>3, <2>4 DEF DriverInv, DriversFollowConfig
  <2>6. HookIsCurrent'
    BY <2>1, <2>2, <2>3 DEF DriverInv, HookIsCurrent
  <2>7. ResetKeepsWiring'
    BY <1>2, <2>2 DEF ResetKeepsWiring, Writing, Replacing, KeyWriting
  <2> QED
    BY <2>5, <2>6, <2>7 DEF DriverInv
<1> QED
  BY <1>1, <1>3, <1>4 DEF KeyWriting

(* Every step of a save or of a reset keeps the drivers' invariant. *)
LEMMA DriverSaveSteps ==
  ASSUME IInv, DriverInv, NEW t \in Tasks, SaveStep(t)
  PROVE  DriverInv'
<1> USE DEF Hold, Goto
<1>1. pc \in [Tasks -> Steps] /\ draft \in [Tasks -> Configs]
  BY DEF IInv, TypeOK
<1>2. CASE BeginSave(t)
  <2>1. \A u \in Tasks : pc'[u] = (IF u = t THEN "replace" ELSE pc[u])
    BY <1>1, <1>2 DEF BeginSave
  <2>2. pc[t] = "save" /\ UNCHANGED <<config, driverVars, draft>>
    BY <1>2 DEF BeginSave
  <2> QED
    BY <2>1, <2>2, DriverQuiet
<1>3. CASE BeginReset(t)
  <2>1. /\ \A u \in Tasks : pc'[u] = (IF u = t THEN "resetReplace" ELSE pc[u])
        /\ \A u \in Tasks : draft'[u] = (IF u = t THEN ResetToSetup(config) ELSE draft[u])
    BY <1>1, <1>3 DEF BeginReset
  <2>2. pc[t] = "drop" /\ UNCHANGED <<config, driverVars>>
    BY <1>3 DEF BeginReset
  <2>3. ResetToSetup(config).wiring = config.wiring
    BY DEF ResetToSetup, IInv, TypeOK, Configs
  <2>4. HookDue' <=> HookDue
    BY <2>1, <2>2 DEF HookDue
  <2>5. DriversFollowConfig'
    BY <2>2, <2>4 DEF DriverInv, DriversFollowConfig, driverVars
  <2>6. HookIsCurrent'
    BY <2>1, <2>2 DEF DriverInv, HookIsCurrent, driverVars
  <2>7. ResetKeepsWiring'
    BY <2>1, <2>2, <2>3 DEF DriverInv, ResetKeepsWiring
  <2> QED
    BY <2>5, <2>6, <2>7 DEF DriverInv
<1>4. CASE AlreadyReset(t) \/ WriteFails(t) \/ RenameFails(t) \/ SecretsFail(t)
  <2>1. Stop(t) /\ UNCHANGED <<config, driverVars>> /\ pc[t] # "apply"
    BY <1>4 DEF AlreadyReset, WriteFails, RenameFails, SecretsFail, Abort, Replacing,
                KeyWriting
  <2>2. "idle" \in Steps
    BY StepNames
  <2> QED
    BY <2>1, <2>2, DriverQuietSteps DEF Stop
<1>5. CASE ReplaceDoc(t)
  <2>1. \A u \in Tasks : u # t => pc'[u] = pc[u]
    BY <1>1, <1>5 DEF ReplaceDoc
  <2>2. /\ pc[t] \in Replacing /\ UNCHANGED <<config, driverVars, draft>>
        /\ pc'[t] = (IF pc[t] = "replace" THEN "secrets" ELSE "resetSecrets")
    BY <1>1, <1>5 DEF ReplaceDoc
  <2> QED
    BY <2>1, <2>2, DriverQuiet DEF Replacing
<1>6. CASE ApplyDrivers(t)
  <2>1. /\ \A u \in Tasks : pc'[u] = (IF u = t THEN "idle" ELSE pc[u])
        /\ \A u \in Tasks : u # t => draft'[u] = draft[u]
    BY <1>1, <1>6 DEF ApplyDrivers, Stop
  <2>2. pc[t] = "apply" /\ drivers' = draft[t].wiring /\ UNCHANGED <<config, crossed>>
    BY <1>6 DEF ApplyDrivers
  <2>3. DriversFollowConfig'
    BY <2>2 DEF DriverInv, HookIsCurrent, DriversFollowConfig
  <2>4. HookIsCurrent'
    BY <2>1, <2>2 DEF DriverInv, HookIsCurrent
  <2>5. ResetKeepsWiring'
    BY <2>1, <2>2 DEF DriverInv, ResetKeepsWiring
  <2> QED
    BY <2>3, <2>4, <2>5 DEF DriverInv
<1> QED
  BY <1>2, <1>3, <1>4, <1>5, <1>6, DriverSave DEF SaveStep

(* Everything but a save or a hook keeps the drivers' invariant. *)
LEMMA DriverOtherSteps ==
  ASSUME IInv, DriverInv,
         \/ \E w \in Wirings : EditWiring(w)
         \/ \E k \in Keys : ManualSetup(k) \/ Claim(k) \/ Revoke(k)
         \/ \E t \in Tasks : StartFetch(t) \/ FetchIdle(t) \/ FetchRefused(t)
         \/ FetchAnswered \/ Overlay \/ EditDeviceConfig \/ Reboot \/ UNCHANGED vars
  PROVE  DriverInv'
<1> DEFINE Free == {"idle", "fetch", "overlay", "save", "drop"}
<1>1. ASSUME NEW t \in Tasks, pc[t] # "apply", UNCHANGED <<config, driverVars>>,
             \E step \in Free : \E c : Hold(t, c, step)
      PROVE  DriverInv'
  <2>1. PICK step \in Free : \E c : Hold(t, c, step)
    BY <1>1
  <2>2. PICK c : Hold(t, c, step)
    BY <2>1
  <2>3. step \in Steps /\ step \notin {"apply", "resetReplace", "resetSecrets"}
    BY StepNames
  <2> QED
    BY <1>1, <2>2, <2>3, DriverQuietSteps
<1>2. "httpd" \in Tasks /\ "va_policy" \in Tasks
  BY DEF Tasks
<1>3. ASSUME NEW w \in Wirings, EditWiring(w) PROVE DriverInv'
  BY <1>1, <1>2, <1>3 DEF EditWiring
<1>4. ASSUME NEW k \in Keys, ManualSetup(k) PROVE DriverInv'
  BY <1>1, <1>2, <1>4 DEF ManualSetup
<1>5. ASSUME NEW k \in Keys, Claim(k) PROVE DriverInv'
  BY <1>1, <1>2, <1>5 DEF Claim
<1>6. ASSUME NEW t \in Tasks, StartFetch(t) PROVE DriverInv'
  BY <1>1, <1>6 DEF StartFetch
<1>7. ASSUME NEW t \in Tasks, FetchIdle(t) PROVE DriverInv'
  BY <1>1, <1>7 DEF FetchIdle, Stop
<1>8. ASSUME NEW t \in Tasks, FetchRefused(t) PROVE DriverInv'
  <2>1. pc' = [pc EXCEPT ![t] = "drop"] /\ pc[t] = "fetch" /\ UNCHANGED <<config, driverVars, draft>>
    BY <1>8 DEF FetchRefused, Goto
  <2>2. \A u \in Tasks : pc'[u] = (IF u = t THEN "drop" ELSE pc[u])
    BY <2>1 DEF IInv, TypeOK
  <2> QED
    BY <2>1, <2>2, DriverQuiet
<1>9. CASE FetchAnswered
  BY <1>1, <1>2, <1>9 DEF FetchAnswered
<1>10. CASE Overlay
  BY <1>1, <1>2, <1>10 DEF Overlay, Stop
<1>11. CASE EditDeviceConfig \/ (\E k \in Keys : Revoke(k)) \/ UNCHANGED vars
  BY <1>11, DriverQuiet DEF EditDeviceConfig, Revoke, vars, taskVars
<1>12. CASE Reboot
  BY <1>12 DEF Reboot, DriverInv, DriversFollowConfig, HookIsCurrent, ResetKeepsWiring
<1> QED
  BY <1>3, <1>4, <1>5, <1>6, <1>7, <1>8, <1>9, <1>10, <1>11, <1>12

(* relay::ApplyConfig and the other hooks: whatever saves fail or overtake one *)
(* another, the drivers run with the wiring of the configuration once its hook *)
(* has run, unless the hooks of two saves overlapped.                          *)
THEOREM DriversMatch == Spec => []DriversFollowConfig
<1>1. ASSUME IInv, DriverInv, [Next]_vars PROVE DriverInv'
  <2>1. ASSUME NEW t \in Tasks, SaveStep(t) PROVE DriverInv'
    BY <1>1, <2>1, DriverSaveSteps
  <2> QED
    BY <1>1, <2>1, DriverOtherSteps DEF Next
<1>2. DriverInv => DriversFollowConfig
  BY DEF DriverInv
<1> QED
  BY InitIInv, NextIInv, InitDriver, <1>1, <1>2, PTL DEF Spec

=============================================================================
