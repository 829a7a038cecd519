--------------------------- MODULE OperationMode ---------------------------
(***************************************************************************)
(* When the ESP32 reader may decide a passage on its own: core/mode.cpp    *)
(* judges the age of the policy snapshot by a clock that has to be set     *)
(* first, by the battery clock at boot (main/clock_service.cpp,            *)
(* main/ds3231_driver.cpp) or by SNTP.  va_policy, and va_commands for a   *)
(* SYNC command, run SyncPolicy of main/sync_task.cpp.  Ages are in ticks. *)
(***************************************************************************)
EXTENDS Naturals

CONSTANT MaxStale     \* max_policy_stale_hours

ASSUME StaleAssumption == MaxStale \in Nat

VARIABLES
  configured, reachable,  \* State: config_.configured, identity_reachable_
  policy, snapshot,       \* the age of policy_ and of policy.json
  clock,                  \* clock_.source, and how the system time compares
  chip,                   \* DS3231: how its time compares, and its stop flag
  present, sntp,          \* g_present, g_sntp_started
  setting,                \* where OnSntpSync is
  sync,                   \* where each task is in SyncPolicy, its answer's age
  link, identity          \* the station is connected; Identity answers

stateVars == <<configured, reachable>>
policyVars == <<policy, snapshot>>
clockVars == <<clock, chip, present, sntp, setting>>
outsideVars == <<link, identity>>
vars == <<stateVars, policyVars, clockVars, sync, outsideVars>>

Syncers == {"va_policy", "va_commands"}
Never == MaxStale + 2                   \* no snapshot; MaxStale + 1 is too old
Ages == 0 .. Never
Times == {"unset", "behind", "right"}   \* against real time; unset is implausible

Older(age) == IF age > MaxStale THEN age ELSE age + 1

AllIdle == [t \in Syncers |-> [at |-> "idle", age |-> Never]]
At(t) == sync[t].at
Goto(t, place) == sync' = [sync EXCEPT ![t].at = place]

Stop(t) == sync' = [sync EXCEPT ![t] = [at |-> "idle", age |-> Never]]

(* Faulty variant: the date of a battery clock that had stopped is taken. *)
ReadingOfStopped(seen) ==
  IF seen /\ chip.time # "unset" THEN [source |-> "rtc", time |-> chip.time]
  ELSE [source |-> "none", time |-> "unset"]

(* clock_service::Init.  The registers may be unreadable: that is no reading. *)
Reading(seen) ==
  IF seen /\ ~chip.stopped /\ chip.time # "unset" THEN [source |-> "rtc", time |-> chip.time]
  ELSE [source |-> "none", time |-> "unset"]

(* A battery clock is new, and stopped, or has been set before. *)
Init ==
  /\ configured \in BOOLEAN /\ reachable = FALSE
  /\ snapshot \in Ages /\ policy = snapshot
  /\ chip \in [time : {"unset", "behind"}, stopped : {TRUE}]
              \cup [time : {"right"}, stopped : BOOLEAN]
  /\ present \in BOOLEAN /\ clock \in {Reading(FALSE), Reading(present)}
  /\ sntp = FALSE /\ setting = "idle"
  /\ sync = AllIdle
  /\ link = FALSE /\ identity \in BOOLEAN

-----------------------------------------------------------------------------
(* ModeLocked: EvaluateOperationMode, contingency enabled *)

Trusted == clock.source # "none" /\ clock.time # "unset"

(* PolicyIsFresh: a clock that is behind takes any policy for a fresh one. *)
PolicyIsFresh == policy <= MaxStale \/ (clock.time = "behind" /\ policy # Never)

OperationMode ==
  CASE ~configured -> "SETUP"
    [] configured /\ reachable -> "ONLINE"
    [] configured /\ ~reachable /\ Trusted /\ PolicyIsFresh -> "CONTINGENCY"
    [] OTHER -> "SYNC_STALE"

-----------------------------------------------------------------------------
(* SyncPolicy *)

(* Faulty variant: a fresh policy is not asked for again. *)
StartSyncWhenStale(t) ==
  /\ At(t) = "idle" /\ configured /\ link /\ policy > MaxStale
  /\ Goto(t, "ask")
  /\ UNCHANGED <<stateVars, policyVars, clockVars, outsideVars>>

(* PolicyLoop, or a SYNC command that was fetched while the key was good. *)
StartSync(t) ==
  /\ At(t) = "idle" /\ configured /\ link
  /\ Goto(t, "ask")
  /\ UNCHANGED <<stateVars, policyVars, clockVars, outsideVars>>

(* A policy without members is never fresh. *)
Answered(t) ==
  /\ At(t) = "ask" /\ link /\ identity
  /\ \E age \in {0, Never} : sync' = [sync EXCEPT ![t] = [at |-> "answer", age |-> age]]
  /\ UNCHANGED <<stateVars, policyVars, clockVars, outsideVars>>

(* EnterSetupMode, unless its save fails. *)
Refused(t) ==
  /\ At(t) = "ask" /\ link /\ identity
  /\ Stop(t)
  /\ \/ configured' = FALSE /\ reachable' = (reachable /\ ~configured)
     \/ UNCHANGED stateVars
  /\ UNCHANGED <<policyVars, clockVars, outsideVars>>

(* Faulty variant: a policy that could not be fetched says nothing of Identity. *)
FailedQuietly(t) ==
  /\ At(t) = "ask"
  /\ Stop(t)
  /\ UNCHANGED <<stateVars, policyVars, clockVars, outsideVars>>

Failed(t) ==
  /\ At(t) = "ask"
  /\ Stop(t)
  /\ reachable' = FALSE
  /\ UNCHANGED <<configured, policyVars, clockVars, outsideVars>>

Reached(t) ==
  /\ At(t) = "answer"
  /\ reachable' = TRUE
  /\ Goto(t, "set")
  /\ UNCHANGED <<configured, policyVars, clockVars, outsideVars>>

SetPolicy(t) ==
  /\ At(t) = "set"
  /\ policy' = sync[t].age
  /\ Goto(t, "save")
  /\ UNCHANGED <<stateVars, snapshot, clockVars, outsideVars>>

(* The file may stay as it was, or be removed and not replaced. *)
SavePolicySnapshot(t) ==
  /\ At(t) = "save"
  /\ snapshot' \in {sync[t].age, snapshot, Never}
  /\ Stop(t)
  /\ UNCHANGED <<stateVars, policy, clockVars, outsideVars>>

SyncPolicy(t) ==
  \/ Answered(t) \/ Refused(t) \/ Failed(t)
  \/ Reached(t) \/ SetPolicy(t) \/ SavePolicySnapshot(t)

-----------------------------------------------------------------------------
(* The clocks *)

ClockOnly == UNCHANGED <<stateVars, policyVars, present, sync, outsideVars>>

(* OnNetworkUp, at each GOT_IP; SNTP may fail to start. *)
StationUp ==
  /\ ~link /\ link' = TRUE
  /\ sntp' \in {sntp, TRUE}
  /\ UNCHANGED <<stateVars, policyVars, clock, chip, present, setting, sync, identity>>

OnSntpSync ==
  /\ sntp /\ link /\ setting = "idle"
  /\ clock' = [source |-> "network", time |-> "right"]
  /\ setting' = IF present THEN "time" ELSE "idle"
  /\ UNCHANGED <<chip, sntp>> /\ ClockOnly

(* Faulty variant: the stop flag goes first. *)
WriteFlagFirst ==
  \/ /\ setting = "time"
     /\ chip' \in {[chip EXCEPT !.stopped = FALSE], chip}
     /\ setting' = "flag"
     /\ UNCHANGED <<clock, sntp>> /\ ClockOnly
  \/ /\ setting = "flag"
     /\ chip' \in {[chip EXCEPT !.time = "right"], chip}
     /\ setting' = "idle"
     /\ UNCHANGED <<clock, sntp>> /\ ClockOnly

(* Write: the time, then the stop flag that vouches for it.  A time that     *)
(* stops halfway spoils only a date that was not kept.                       *)
WriteTime ==
  \/ /\ setting = "time"
     /\ \/ chip' = [chip EXCEPT !.time = "right"] /\ setting' = "flag"
        \/ /\ chip' \in {[chip EXCEPT !.time = now] :
                        now \in IF chip.stopped THEN Times ELSE {chip.time}}
           /\ setting' = "idle"
     /\ UNCHANGED <<clock, sntp>> /\ ClockOnly
  \/ /\ setting = "flag"
     /\ chip' \in {[chip EXCEPT !.stopped = FALSE], chip}
     /\ setting' = "idle"
     /\ UNCHANGED <<clock, sntp>> /\ ClockOnly

-----------------------------------------------------------------------------
(* Around the reader *)

StationDown ==
  /\ link /\ link' = FALSE
  /\ UNCHANGED <<stateVars, policyVars, clockVars, sync, identity>>

IdentityComesOrGoes ==
  /\ identity' = ~identity
  /\ UNCHANGED <<stateVars, policyVars, clockVars, sync, link>>

Claim ==
  /\ ~configured /\ link /\ configured' = TRUE
  /\ UNCHANGED <<reachable, policyVars, clockVars, sync, outsideVars>>

Tick ==
  /\ policy' = Older(policy) /\ snapshot' = Older(snapshot)
  /\ sync' = [t \in Syncers |-> [sync[t] EXCEPT !.age = Older(@)]]
  /\ UNCHANGED <<stateVars, clockVars, outsideVars>>

(* app_main after a restart or a power cut, which the cell may not outlast. *)
Boot ==
  /\ \E kept \in {chip} \cup [time : {"unset", "behind"}, stopped : {TRUE}] : chip' = kept
  /\ present' \in BOOLEAN
  /\ clock' \in {Reading(FALSE)', Reading(present)'}
  /\ policy' = snapshot
  /\ reachable' = FALSE /\ sntp' = FALSE /\ setting' = "idle"
  /\ sync' = AllIdle /\ link' = FALSE
  /\ UNCHANGED <<configured, snapshot, identity>>

Next ==
  \/ \E t \in Syncers : StartSync(t) \/ SyncPolicy(t)
  \/ StationUp \/ OnSntpSync \/ WriteTime
  \/ StationDown \/ IdentityComesOrGoes \/ Claim \/ Tick \/ Boot

Spec == Init /\ [][Next]_vars

(* PolicyLoop goes on, and its requests end; Identity answers a repeated     *)
(* request some time.                                                        *)
Fairness ==
  /\ WF_vars(StartSync("va_policy"))
  /\ \A t \in Syncers : WF_vars(SyncPolicy(t))
  /\ SF_vars(Answered("va_policy"))

FairSpec == Spec /\ Fairness

-----------------------------------------------------------------------------
(* Properties *)

(* Every variable has its type, and a task has an answer only while it uses it. *)
TypeOK ==
  /\ configured \in BOOLEAN /\ reachable \in BOOLEAN
  /\ policy \in Ages /\ snapshot \in Ages
  /\ clock \in [source : {"none", "rtc", "network"}, time : Times]
  /\ chip \in [time : Times, stopped : BOOLEAN] /\ present \in BOOLEAN
  /\ sntp \in BOOLEAN /\ setting \in {"idle", "time", "flag"}
  /\ sync \in [Syncers -> [at : {"idle", "ask", "answer", "set", "save"}, age : Ages]]
  /\ \A t \in Syncers : At(t) \in {"idle", "ask"} => sync[t].age = Never
  /\ link \in BOOLEAN /\ identity \in BOOLEAN

(* clock.hpp:4-13: a clock that is behind makes an expired ticket look       *)
(* valid.  A reader that decides on its own knows the time, and its policy   *)
(* is not older than the limit, through power cuts, cells that die, writes   *)
(* of the battery clock that stop halfway and syncs that overlap.            *)
OfflineIsTimely ==
  OperationMode = "CONTINGENCY" => clock.time = "right" /\ policy <= MaxStale

(* sync_task.cpp:45-54, 148-150: when Identity stops answering a connected   *)
(* reader, the reader notices, and no answer that was still on its way makes *)
(* it claim ONLINE for good.                                                 *)
IdentityOutageShows ==
  <>[](configured /\ link /\ ~identity) => <>[]~reachable

(* sync_task.cpp:139-160: when both are back the reader goes ONLINE again,    *)
(* whatever the SYNC commands that fail beside PolicyLoop do.                *)
BackOnline == <>[](configured /\ link /\ identity) => []<>reachable

(* qr-reader-firmware/README.md:562-564: a network outage exercises          *)
(* CONTINGENCY, or SYNC_STALE.                                               *)
NetworkOutageShows == <>[](configured /\ ~link) => <>[]~reachable

=============================================================================
