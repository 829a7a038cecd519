---------------------------- MODULE FactoryReset ----------------------------
(***************************************************************************)
(* FactoryResetAndReboot of main/service_button.cpp on the two stores of   *)
(* main/storage.cpp: config.json in LittleFS and the secrets in NVS.  The  *)
(* va_boot_btn task writes them without the mutex of app::State, under     *)
(* which any other task saves; both go through the same temporary file.    *)
(* A write, a rename or a removal may fail; what is stored can be read.    *)
(***************************************************************************)
EXTENDS Naturals

VARIABLES
  configured,   \* State::config_.configured
  doc, temp,    \* config.json and config.json.tmp: whose document they hold
  nvs,          \* the device key, or none: the Wi-Fi password is looked at by nobody
  mounted,      \* LittleFS is mounted
  resetAt,      \* where the factory reset is
  again,        \* the factory reset has wiped what it could not replace
  save,         \* where the save of another task is, and what it saves
  late,         \* history: stores another task wrote after the reset looked at them
  refused       \* history: stores that refused the reset's last wipe

resetVars == <<configured, doc, temp, nvs, mounted, resetAt, again, save, late, refused>>
storeVars == <<doc, temp, nvs>>
resetHistory == <<late, refused>>

(* Whose configuration: after a factory reset, after ResetToSetup (which    *)
(* keeps the Wi-Fi), or of a provisioned reader.  No config.json at all      *)
(* reads as that of a factory reset.                                        *)
Bodies == {"factory", "setup", "live"}
Secrets(body) == IF body = "live" THEN "key" ELSE "none"

Writing == {"write", "remove", "rename", "secrets"}
NoSave == [at |-> "none", body |-> "live"]

Resetting == resetAt # "none"

ResetInit ==
  /\ configured \in BOOLEAN
  /\ doc = IF configured THEN "live" ELSE "factory"
  /\ temp = "none" /\ nvs = Secrets(doc) /\ mounted = TRUE
  /\ resetAt = "none" /\ again = FALSE /\ save = NoSave /\ late = {} /\ refused = {}

-----------------------------------------------------------------------------
(* SaveConfig of storage: WriteFileAtomic, then the secrets *)

(* A file that could not be opened is as it was; one that came out short is  *)
(* removed, or is left behind and reads as no settings at all.              *)
WriteTemp(body, done, failed) ==
  /\ \/ mounted /\ temp' = body /\ done
     \/ temp' \in {temp} \cup (IF mounted THEN {"none", "factory"} ELSE {}) /\ failed
  /\ UNCHANGED <<doc, nvs>>

(* std::remove, whose result nobody looks at; gone is how a file that is not *)
(* there reads.                                                             *)
Removed(file, gone) == {file} \cup (IF mounted THEN {gone} ELSE {})

RemoveDocument == doc' \in Removed(doc, "factory") /\ UNCHANGED <<temp, nvs>>

RenameTemp(done, failed) ==
  /\ \/ mounted /\ temp # "none" /\ doc' = temp /\ temp' = "none" /\ done
     \/ failed /\ UNCHANGED <<doc, temp>>
  /\ UNCHANGED nvs

(* The device key goes first: a write that fails at the password has stored it. *)
WriteSecrets(body, done, failed) ==
  /\ \/ nvs' = Secrets(body) /\ done
     \/ nvs' \in {nvs, Secrets(body)} /\ failed
  /\ UNCHANGED <<doc, temp>>

-----------------------------------------------------------------------------
(* A save of another task, under the mutex of app::State *)

(* A remote setting, or EnterSetupMode. *)
BeginSave(body) ==
  /\ save = NoSave /\ configured
  /\ save' = [at |-> "write", body |-> body]
  /\ UNCHANGED <<configured, storeVars, mounted, resetAt, again, resetHistory>>

SaveEnds == save' = NoSave
SaveGoes(place) == save' = [save EXCEPT !.at = place]

Written == (IF doc' = doc THEN {} ELSE {"doc"}) \cup (IF nvs' = nvs THEN {} ELSE {"nvs"})

(* The stores that the reset has seen, or wiped, for the last time. *)
Seen == CASE resetAt = "checkKey" \/ (again /\ resetAt = "wipeRest") -> {"doc"}
          [] resetAt \in {"unmount", "release"} -> {"doc", "nvs"}
          [] OTHER -> {}

(* A failed step ends it; ResetToSetup is in memory once it is stored. *)
SaveConfig ==
  /\ \/ save.at = "write" /\ WriteTemp(save.body, SaveGoes("remove"), SaveEnds)
     \/ save.at = "remove" /\ RemoveDocument /\ SaveGoes("rename")
     \/ save.at = "rename" /\ RenameTemp(SaveGoes("secrets"), SaveEnds)
     \/ save.at = "secrets" /\ WriteSecrets(save.body, SaveGoes("done"), SaveEnds)
     \/ save.at = "done" /\ SaveEnds /\ UNCHANGED storeVars
  /\ configured' = (configured /\ save # [at |-> "done", body |-> "setup"])
  /\ late' = late \cup (Written \cap Seen)
  /\ UNCHANGED <<mounted, resetAt, again, refused>>

-----------------------------------------------------------------------------
(* The factory reset *)

ResetGoes(place) == resetAt' = place /\ UNCHANGED again

ResetFails == ResetGoes("wipe")

(* LoadConfig and ConfigLooksFactoryReset: the document, then the key. *)
NoSettings == doc = "factory"
NoKey == nvs = "none"

(* Faulty variant: what is read back is not looked at. *)
ReadBackIgnored ==
  /\ UNCHANGED <<storeVars, resetHistory>>
  /\ \/ resetAt = "check" /\ ResetGoes("checkKey")
     \/ resetAt = "checkKey" /\ ResetGoes("unmount")

ReadBack ==
  /\ UNCHANGED <<storeVars, resetHistory>>
  /\ \/ resetAt = "check" /\ IF NoSettings THEN ResetGoes("checkKey") ELSE ResetFails
     \/ resetAt = "checkKey" /\ IF NoKey THEN ResetGoes("unmount") ELSE ResetFails

(* The copy it resets is read under the mutex, so no save is under way then. *)
BeginReset ==
  /\ ~Resetting /\ save = NoSave
  /\ resetAt' = "write" /\ again' = FALSE
  /\ late' = {} /\ refused' = {}
  /\ UNCHANGED <<configured, storeVars, mounted, save>>

(* The document is wiped, then the rest; what refuses stays as it is, and    *)
(* nobody looks at the result.                                               *)
Wiped(store, stays) ==
  /\ late' = late \ {store}
  /\ refused' = IF again /\ stays THEN refused \cup {store} ELSE refused

WipeProvisioning ==
  \/ /\ resetAt = "wipe" /\ ResetGoes("wipeRest")
     /\ doc' \in Removed(doc, "factory") /\ Wiped("doc", doc' # "factory")
     /\ UNCHANGED <<temp, nvs>>
  \/ /\ resetAt = "wipeRest"
     /\ temp' \in Removed(temp, "none") /\ nvs' \in {nvs, "none"} /\ Wiped("nvs", nvs' # "none")
     /\ resetAt' = (IF again THEN "unmount" ELSE "write") /\ again' = TRUE
     /\ UNCHANGED doc

(* A save that fails, or that cannot be read back, is wiped and tried again. *)
ResetSaves ==
  /\ \/ resetAt = "write" /\ WriteTemp("factory", ResetGoes("remove"), ResetFails)
     \/ resetAt = "remove" /\ RemoveDocument /\ ResetGoes("rename")
     \/ resetAt = "rename" /\ RenameTemp(ResetGoes("secrets"), ResetFails)
     \/ resetAt = "secrets" /\ WriteSecrets("factory", ResetGoes("check"), ResetFails)
  /\ UNCHANGED resetHistory

ResetStores ==
  /\ ResetSaves \/ ReadBack \/ WipeProvisioning
  /\ UNCHANGED <<configured, mounted, save>>

Unmount ==
  /\ resetAt = "unmount"
  /\ mounted' = FALSE /\ ResetGoes("release")
  /\ UNCHANGED <<configured, storeVars, save, resetHistory>>

(* BOOT is let go and the reader restarts with what is stored. *)
Restart ==
  /\ resetAt = "release"
  /\ configured' = (doc = "live") /\ mounted' = TRUE
  /\ resetAt' = "none" /\ again' = FALSE /\ save' = NoSave
  /\ late' = {} /\ refused' = {}
  /\ UNCHANGED storeVars

FactoryResetAndReboot == ResetStores \/ Unmount

=============================================================================
