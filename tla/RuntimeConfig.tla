--------------------------- MODULE RuntimeConfig ---------------------------
(***************************************************************************)
(* The configuration of the ESP32 reader, owned by app::State and written  *)
(* by three tasks: httpd (/setup), va_policy (Identity device-config) and  *)
(* va_commands (a rejected key or a RESET).  A save takes the state mutex, *)
(* replaces config.json, then the device key in NVS, then the copy in      *)
(* memory; the drivers are re-armed after the mutex is released.  Every    *)
(* writer but EnterSetupMode saves a copy it read before taking the mutex. *)
(***************************************************************************)
EXTENDS Naturals

CONSTANTS
  Keys, NoKey,    \* device keys Identity issues
  Wirings,        \* local settings: pins, polarity, pulse width
  MaxVersion,     \* bound: Identity edits the device config this many times
  ManualSetups,   \* TRUE when a technician may type a key in /setup
  Failures,       \* TRUE when a write to flash may fail
  PowerCuts       \* TRUE when the power may fail at any step

ASSUME KeyAssumption == NoKey \notin Keys
ASSUME WiringAssumption == Wirings # {}
ASSUME VersionAssumption == MaxVersion \in Nat
ASSUME SwitchAssumption ==
  ManualSetups \in BOOLEAN /\ Failures \in BOOLEAN /\ PowerCuts \in BOOLEAN

VARIABLES
  config,           \* State::config_
  etag,             \* State::device_config_etag_: the version last fetched, or 0
  doc, nvsKey,      \* config.json, and the device key in NVS
  drivers,          \* the wiring the drivers run with
  crossed,          \* history: a save finished while the hook of another was due
  pc, draft,        \* where each task is, and the config it holds
  torn,             \* history: the last save failed after it touched flash
  version, revoked  \* Identity: its device config, and the keys it refuses

storeVars == <<doc, nvsKey, torn>>
driverVars == <<drivers, crossed>>
identityVars == <<version, revoked>>
taskVars == <<pc, draft>>
vars == <<config, etag, storeVars, driverVars, taskVars, identityVars>>

Tasks == {"httpd", "va_policy", "va_commands"}
Versions == 0 .. MaxVersion     \* 0: the factory defaults

Configs == [configured : BOOLEAN, key : Keys \cup {NoKey},
            remote : Versions, wiring : Wirings]

FactoryWiring == CHOOSE w \in Wirings : TRUE
Factory == [configured |-> FALSE, key |-> NoKey, remote |-> 0, wiring |-> FactoryWiring]

(* config.json is the config without its secrets; a missing one loads as the *)
(* factory defaults.                                                         *)
Public(c) == [c EXCEPT !.key = NoKey]
LoadConfig == [(IF doc.there THEN doc.body ELSE Factory) EXCEPT !.key = nvsKey]

ResetToSetup(c) == [c EXCEPT !.configured = FALSE, !.key = NoKey]

(* Where a task holds the state mutex: replacing config.json, then writing   *)
(* the secrets, for a save or for the reset that EnterSetupMode does.        *)
Replacing == {"replace", "resetReplace"}
KeyWriting == {"secrets", "resetSecrets"}
Writing == Replacing \cup KeyWriting
Steps == {"idle", "fetch", "overlay", "save", "drop", "apply"} \cup Writing

(* A faulty variant of Locked: the key is written after the mutex is given up. *)
LockedForDoc == \E t \in Tasks : pc[t] \in Replacing

Locked == \E t \in Tasks : pc[t] \in Writing

(* A task that has saved and has yet to run on_config_applied_. *)
HookDue == \E t \in Tasks : pc[t] = "apply"

Goto(t, step) == pc' = [pc EXCEPT ![t] = step]
Hold(t, c, step) == Goto(t, step) /\ draft' = [draft EXCEPT ![t] = c]
Stop(t) == Hold(t, Factory, "idle")

Init ==
  /\ \E k \in Keys : config = [Factory EXCEPT !.configured = TRUE, !.key = k]
  /\ etag = 0
  /\ doc = [there |-> TRUE, body |-> Public(config)] /\ nvsKey = config.key
  /\ drivers = config.wiring /\ crossed = FALSE
  /\ pc = [t \in Tasks |-> "idle"] /\ draft = [t \in Tasks |-> Factory]
  /\ torn = FALSE
  /\ version \in Versions
  /\ revoked = {}

-----------------------------------------------------------------------------
(* Who writes a configuration *)

(* HandleSetupHardware: the wiring, in a copy of everything else. *)
EditWiring(w) ==
  /\ pc["httpd"] = "idle" /\ config.configured /\ config.key # NoKey
  /\ Hold("httpd", [config EXCEPT !.wiring = w], "save")
  /\ UNCHANGED <<config, etag, storeVars, driverVars, identityVars>>

(* HandleSetupSave: factory defaults but for what was typed and the wiring;  *)
(* Identity is pinged between the copy and the save.                         *)
ManualSetup(k) ==
  /\ ManualSetups
  /\ pc["httpd"] = "idle"
  /\ Hold("httpd", [Factory EXCEPT !.configured = TRUE, !.key = k,
                                   !.wiring = config.wiring], "save")
  /\ UNCHANGED <<config, etag, storeVars, driverVars, identityVars>>

(* HandleSetupProvision: Identity issues a key and the current settings, but *)
(* for the beacon, which starts from its defaults.                           *)
Claim(k) ==
  /\ pc["httpd"] = "idle" /\ k \notin revoked
  /\ \E r \in {0, version} :
       Hold("httpd", [configured |-> TRUE, key |-> k, remote |-> r,
                      wiring |-> config.wiring], "save")
  /\ UNCHANGED <<config, etag, storeVars, driverVars, identityVars>>

(* SyncDeviceConfig, asked with a copy of the config and the stored ETag. *)
StartFetch(t) ==
  /\ t \in {"va_policy", "va_commands"}
  /\ pc[t] = "idle" /\ config.configured
  /\ Hold(t, config, "fetch")
  /\ UNCHANGED <<config, etag, storeVars, driverVars, identityVars>>

Accepted(key) == key \in Keys \ revoked

(* No answer, nothing new, or a command that leaves the configuration alone. *)
FetchIdle(t) ==
  /\ pc[t] = "fetch"
  /\ Stop(t)
  /\ UNCHANGED <<config, etag, storeVars, driverVars, identityVars>>

(* A faulty variant of FetchRefused: a rejected key is retried. *)
FetchRetried(t) ==
  /\ pc[t] = "fetch"
  /\ ~Accepted(draft[t].key) \/ t = "va_commands"
  /\ Stop(t)
  /\ UNCHANGED <<config, etag, storeVars, driverVars, identityVars>>

(* 401 or BRIDGE_DISABLED; on va_commands also the RESET command. *)
FetchRefused(t) ==
  /\ pc[t] = "fetch"
  /\ ~Accepted(draft[t].key) \/ t = "va_commands"
  /\ Goto(t, "drop")
  /\ UNCHANGED <<config, etag, storeVars, driverVars, draft, identityVars>>

(* The ETag is remembered as soon as the answer is in. *)
FetchAnswered ==
  /\ pc["va_policy"] = "fetch"
  /\ Accepted(draft["va_policy"].key) /\ etag # version
  /\ etag' = version
  /\ Hold("va_policy", [draft["va_policy"] EXCEPT !.remote = version], "overlay")
  /\ UNCHANGED <<config, storeVars, driverVars, identityVars>>

(* ApplyRemoteDeviceConfig on a fresh copy of the config. *)
Overlay ==
  LET updated == [config EXCEPT !.remote = draft["va_policy"].remote]
  IN /\ pc["va_policy"] = "overlay"
     /\ IF updated = config THEN Stop("va_policy")
        ELSE Hold("va_policy", updated, "save")
     /\ UNCHANGED <<config, etag, storeVars, driverVars, identityVars>>

-----------------------------------------------------------------------------
(* State::SaveConfig and State::EnterSetupMode, under the state mutex *)

(* A faulty variant of Abort: the hook runs although the save failed. *)
AbortApplied(t) ==
  Goto(t, "apply") /\ UNCHANGED <<draft, config, etag, driverVars, identityVars>>

Abort(t) == Stop(t) /\ UNCHANGED <<config, etag, driverVars, identityVars>>

RemoveDoc == doc' = [there |-> FALSE, body |-> Public(Factory)] /\ UNCHANGED <<nvsKey, torn>>

BeginSave(t) ==
  /\ pc[t] = "save" /\ ~Locked
  /\ RemoveDoc
  /\ Goto(t, "replace")
  /\ UNCHANGED <<config, etag, driverVars, draft, identityVars>>

BeginReset(t) ==
  /\ pc[t] = "drop" /\ ~Locked /\ config.configured
  /\ RemoveDoc
  /\ Hold(t, ResetToSetup(config), "resetReplace")
  /\ UNCHANGED <<config, etag, driverVars, identityVars>>

AlreadyReset(t) ==
  /\ pc[t] = "drop" /\ ~Locked /\ ~config.configured
  /\ Abort(t) /\ UNCHANGED storeVars

(* The temporary file cannot be written: nothing has been touched. *)
WriteFails(t) ==
  /\ Failures
  /\ pc[t] \in {"save", "drop"} /\ ~Locked
  /\ Abort(t) /\ UNCHANGED storeVars

ReplaceDoc(t) ==
  /\ pc[t] \in Replacing
  /\ doc' = [there |-> TRUE, body |-> Public(draft[t])]
  /\ Goto(t, IF pc[t] = "replace" THEN "secrets" ELSE "resetSecrets")
  /\ UNCHANGED <<config, etag, nvsKey, torn, driverVars, draft, identityVars>>

RenameFails(t) ==
  /\ Failures
  /\ pc[t] \in Replacing
  /\ torn' = TRUE
  /\ Abort(t) /\ UNCHANGED <<doc, nvsKey>>

(* NVS, then the copy in memory.  EnterSetupMode forgets the ETag as well, *)
(* and runs no hook.                                                       *)
WriteSecrets(t) ==
  /\ pc[t] \in KeyWriting
  /\ nvsKey' = draft[t].key
  /\ config' = draft[t]
  /\ torn' = FALSE
  /\ \/ /\ pc[t] = "secrets" /\ Goto(t, "apply") /\ UNCHANGED <<draft, etag>>
        /\ crossed' = HookDue
     \/ pc[t] = "resetSecrets" /\ Stop(t) /\ etag' = 0 /\ UNCHANGED crossed
  /\ UNCHANGED <<doc, drivers, identityVars>>

(* NVS fails, or the read-back does. *)
SecretsFail(t) ==
  /\ Failures
  /\ pc[t] \in KeyWriting
  /\ nvsKey' \in {nvsKey, draft[t].key}
  /\ torn' = TRUE
  /\ Abort(t) /\ UNCHANGED doc

(* on_config_applied_, outside the mutex, with the config that was saved. *)
ApplyDrivers(t) ==
  /\ pc[t] = "apply"
  /\ drivers' = draft[t].wiring
  /\ Stop(t)
  /\ UNCHANGED <<config, etag, storeVars, crossed, identityVars>>

-----------------------------------------------------------------------------
(* Identity, and the loss of power *)

EditDeviceConfig ==
  /\ version < MaxVersion
  /\ version' = version + 1
  /\ UNCHANGED <<config, etag, storeVars, driverVars, taskVars, revoked>>

Revoke(k) ==
  /\ k \notin revoked
  /\ revoked' = revoked \cup {k}
  /\ UNCHANGED <<config, etag, storeVars, driverVars, taskVars, version>>

Reboot ==
  /\ PowerCuts
  /\ config' = LoadConfig
  /\ drivers' = LoadConfig.wiring /\ crossed' = FALSE
  /\ etag' = 0 /\ torn' = FALSE
  /\ pc' = [t \in Tasks |-> "idle"] /\ draft' = [t \in Tasks |-> Factory]
  /\ UNCHANGED <<doc, nvsKey, identityVars>>

SaveStep(t) ==
  \/ BeginSave(t) \/ BeginReset(t) \/ AlreadyReset(t) \/ WriteFails(t)
  \/ ReplaceDoc(t) \/ RenameFails(t) \/ WriteSecrets(t) \/ SecretsFail(t)
  \/ ApplyDrivers(t)

Next ==
  \/ \E w \in Wirings : EditWiring(w)
  \/ \E k \in Keys : ManualSetup(k) \/ Claim(k) \/ Revoke(k)
  \/ \E t \in Tasks : StartFetch(t) \/ FetchIdle(t) \/ FetchRefused(t) \/ SaveStep(t)
  \/ FetchAnswered \/ Overlay
  \/ EditDeviceConfig
  \/ Reboot

Spec == Init /\ [][Next]_vars

(* The tasks keep running, the mutex is handed on, and a request that keeps *)
(* being repeated gets an answer now and then.  Writes that are tried again *)
(* do not fail for ever, power cuts come to an end, and nobody has to use   *)
(* /setup.                                                                  *)
Fairness ==
  /\ \A t \in Tasks : SF_vars(SaveStep(t))
  /\ WF_vars(StartFetch("va_policy")) /\ WF_vars(FetchIdle("va_policy"))
  /\ SF_vars(FetchRefused("va_policy")) /\ SF_vars(FetchAnswered)
  /\ WF_vars(Overlay)
  /\ SF_vars(BeginReset("va_policy")) /\ SF_vars(ReplaceDoc("va_policy"))
  /\ SF_vars(WriteSecrets("va_policy"))
  /\ <>[][~Reboot]_vars

FairSpec == Spec /\ Fairness

-----------------------------------------------------------------------------
(* Properties *)

(* Every variable ranges over the values the code can give it. *)
TypeOK ==
  /\ config \in Configs /\ etag \in Versions
  /\ doc \in [there : BOOLEAN, body : Configs] /\ nvsKey \in Keys \cup {NoKey}
  /\ drivers \in Wirings /\ crossed \in BOOLEAN
  /\ pc \in [Tasks -> Steps]
  /\ draft \in [Tasks -> Configs]
  /\ \A t \in Tasks : ~draft[t].configured => draft[t].key = NoKey
  /\ torn \in BOOLEAN
  /\ version \in Versions /\ revoked \in SUBSET Keys

(* SaveConfig: whatever tasks save, reset and fail one over the other, what  *)
(* the appliance runs with is what a reboot would load, except while a save  *)
(* is under way or after one that failed halfway.                            *)
StoredIsLive == ~Locked /\ ~torn => LoadConfig = config

(* HandleUnauthorized: a reader whose key Identity refuses drops it. *)
RevokedIsDropped ==
  config.configured /\ config.key \in revoked
    ~> ~(config.configured /\ config.key \in revoked)

(* sync_task.cpp:33 on a rejected key "the appliance drops its credentials   *)
(* ... instead of retrying with a key that will never work again": once they *)
(* are dropped, the sync task is not what brings credentials back.           *)
SyncNeverProvisions ==
  [][~config.configured /\ config'.configured
       => pc'["va_policy"] = pc["va_policy"]]_vars

(* relay.hpp:16 "ApplyConfig re-arms the driver after /setup or Identity     *)
(* device-config changes": whichever saves fail, are repeated or overtaken,  *)
(* the drivers run with the wiring of the configuration as soon as its hook  *)
(* has run, unless the hooks of two saves overlapped.                        *)
DriversFollowConfig == ~HookDue /\ ~crossed => drivers = config.wiring

=============================================================================
