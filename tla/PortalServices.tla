--------------------------- MODULE PortalServices ---------------------------
(***************************************************************************)
(* What shares the radio and the memory with the setup portal of the ESP32 *)
(* reader: the wildcard DNS of main/captive_dns.cpp runs only while the    *)
(* SoftAP is up, the HTTPS listener of main/http_server.cpp and the        *)
(* iBeacon of main/ble_beacon.cpp only while it is down.  Each has a task  *)
(* of its own that learns of the switch later; any task may ask for a      *)
(* switch at any time.                                                     *)
(***************************************************************************)
EXTENDS ApMode

CONSTANT Starters   \* beacon start tasks and saves that may be under way at once

VARIABLES
  dns,        \* g_task and g_stop of captive_dns
  stale,      \* history: the last refresh of the DNS saw an older SoftAP
  http,       \* g_http_server is running
  https,      \* g_https_server; "failed" after a start that did not succeed
  httpsDue,   \* g_https_timer is armed
  timerAt,    \* where the esp_timer task is in ApplyLanHttps or in a restart
  wanted,     \* ble_beacon: g_config.enabled
  stack,      \* ble_beacon: g_init_started, g_stack_ready, g_stack_failed
  advertising,  \* ble_beacon: g_advertising
  pending,    \* g_beacon_task_pending
  starter,    \* where each start of the beacon is
  late        \* history: a start that saw no portal went on after it was raised

dnsVars == <<dns, stale>>
httpsVars == <<http, https, httpsDue, timerAt>>
beaconVars == <<wanted, stack, advertising, pending, starter, late>>
vars == <<apVars, dnsVars, httpsVars, beaconVars>>

Init ==
  /\ ApInit
  /\ dns = IF ap THEN "serving" ELSE "none"
  /\ stale = FALSE
  /\ http = TRUE
  /\ https = IF ap THEN "down" ELSE "up"
  /\ httpsDue = FALSE /\ timerAt = "idle"
  /\ wanted = FALSE /\ stack = "off" /\ advertising = FALSE
  /\ pending = FALSE /\ starter = [b \in Starters |-> "none"] /\ late = FALSE

-----------------------------------------------------------------------------
(* The beacon *)

(* Faulty variant: the pause stops the advertising but not a pending start. *)
PauseOnly ==
  /\ advertising' = FALSE /\ pending' = FALSE
  /\ UNCHANGED <<wanted, stack, starter, late>>

PauseBeacon ==
  /\ wanted' = FALSE /\ advertising' = FALSE /\ pending' = FALSE
  /\ UNCHANGED <<stack, starter, late>>

ScheduleBeaconStart ==
  /\ \/ /\ configured /\ ~ap /\ ~pending
        /\ \E b \in Starters :
             starter[b] = "none" /\ starter' = [starter EXCEPT ![b] = "created"]
        /\ pending' = TRUE
     \/ UNCHANGED <<pending, starter>>     \* not due, not asked, or no memory
  /\ UNCHANGED <<wanted, stack, advertising, late>>

BeaconStartTask(b) ==
  /\ starter[b] = "created"
  /\ IF configured /\ ~ap
     THEN starter' = [starter EXCEPT ![b] = "checked"] /\ UNCHANGED pending
     ELSE starter' = [starter EXCEPT ![b] = "none"] /\ pending' = FALSE
  /\ UNCHANGED <<apVars, dnsVars, httpsVars, wanted, stack, advertising, late>>

(* on_config_applied and SyncDeviceConfig re-apply the beacon of a save. *)
BeginHook(b) ==
  /\ starter[b] = "none" /\ ~ap
  /\ starter' = [starter EXCEPT ![b] = "hook"]
  /\ UNCHANGED <<apVars, dnsVars, httpsVars, wanted, stack, advertising, pending, late>>

(* ApplyConfig of an enabled beacon: the stack is initialised once, and a *)
(* failure of it is for good.                                              *)
ApplyConfig(b) ==
  /\ starter[b] \in {"checked", "hook"}
  /\ wanted' = TRUE
  /\ stack' \in IF stack = "off" THEN {"starting", "failed"} ELSE {stack}
  /\ \/ advertising' = (stack = "ready")
     \/ advertising' = FALSE /\ ~advertising      \* the advertising cannot start
  /\ pending' = (pending /\ starter[b] = "hook")
  /\ starter' = [starter EXCEPT ![b] = "none"]
  /\ late' = (late \/ ap \/ \E t \in Tasks : call[t] = [at |-> "switch", want |-> "raise"])
  /\ UNCHANGED <<apVars, dnsVars, httpsVars>>

OnSync ==
  /\ stack = "starting"
  /\ stack' = "ready"
  /\ advertising' \in {FALSE, wanted}
  /\ UNCHANGED <<apVars, dnsVars, httpsVars, wanted, pending, starter, late>>

OnReset ==
  /\ stack = "ready"
  /\ stack' = "starting" /\ advertising' = FALSE
  /\ UNCHANGED <<apVars, dnsVars, httpsVars, wanted, pending, starter, late>>

Beacon ==
  \/ \E b \in Starters : BeaconStartTask(b) \/ BeginHook(b) \/ ApplyConfig(b)
  \/ OnSync \/ OnReset

-----------------------------------------------------------------------------
(* The listeners, on the esp_timer task *)

TimerOnly == UNCHANGED <<apVars, dnsVars, beaconVars>>

(* Faulty variant: a running listener is taken to be wanted. *)
ApplyLanHttpsOnce ==
  /\ timerAt = "idle" /\ httpsDue
  /\ httpsDue' = FALSE
  /\ timerAt' = IF ap \/ https = "up" THEN "idle" ELSE "start"
  /\ UNCHANGED <<http, https>> /\ TimerOnly

ApplyLanHttps ==
  /\ timerAt = "idle" /\ httpsDue
  /\ httpsDue' = FALSE
  /\ IF ap THEN https' = "down" /\ UNCHANGED timerAt
     ELSE UNCHANGED https /\ timerAt' = IF https = "up" THEN "idle" ELSE "start"
  /\ UNCHANGED http /\ TimerOnly

StartHttpsServer ==
  /\ timerAt = "start"
  /\ https' \in {"up", "failed"}
  /\ timerAt' = "idle"
  /\ UNCHANGED <<http, httpsDue>> /\ TimerOnly

(* A save moved the HTTP port: every listener stops and starts again, the *)
(* captive one on port 80 with them.                                       *)
RestartOnPendingPort ==
  /\ timerAt = "idle"
  /\ http' = FALSE /\ https' = "down" /\ timerAt' = "restart"
  /\ UNCHANGED httpsDue /\ TimerOnly

(* Neither the new port nor the previous one may be free. *)
StartOn ==
  /\ timerAt = "restart"
  /\ \/ http' = TRUE /\ timerAt' = IF ap THEN "idle" ELSE "start"
     \/ UNCHANGED http /\ timerAt' = "idle"
  /\ UNCHANGED <<https, httpsDue>> /\ TimerOnly

Listeners == ApplyLanHttps \/ StartHttpsServer \/ RestartOnPendingPort \/ StartOn

-----------------------------------------------------------------------------
(* SetApMode, and the DNS task *)

(* RefreshLanHttps has nothing to refresh while no server runs. *)
RefreshLanHttps == httpsDue' = (httpsDue \/ http)

(* Any task that asks for the portal, or for its end. *)
CallSetApMode(t) ==
  /\ At(t) = "out"
  /\ \E want \in {"raise", "lower"} : Ask(t, want)
  /\ UNCHANGED <<configured, ap, dnsVars, httpsVars, beaconVars>>

(* OnWifiEvent refreshes the DNS and the beacon when the station comes or goes. *)
StationEvent(t) ==
  /\ At(t) = "out"
  /\ GoTo(t, "refresh")
  /\ UNCHANGED <<configured, ap, dnsVars, httpsVars, beaconVars>>

(* The advertising stops before the radio is switched. *)
DecideMode(t) ==
  /\ Decide(t)
  /\ IF call'[t] = [at |-> "switch", want |-> "raise"] THEN PauseBeacon
     ELSE UNCHANGED beaconVars
  /\ UNCHANGED <<dnsVars, httpsVars>>

Switch(t) ==
  /\ SwitchMode(t, "refresh")
  /\ UNCHANGED <<dnsVars, httpsVars, beaconVars>>

(* RefreshPortalNetworking looks at the SoftAP under g_mutex and acts after. *)
ReadPortal(t) ==
  /\ At(t) = "refresh"
  /\ GoTo(t, IF ap THEN "startDns" ELSE "stopDns")
  /\ UNCHANGED <<configured, ap, dnsVars, httpsVars, beaconVars>>

Follow(t) ==
  /\ GoTo(t, "ok")
  /\ IF call[t].want = "refresh" THEN UNCHANGED httpsDue ELSE RefreshLanHttps
  /\ IF call[t].want = "raise" THEN UNCHANGED beaconVars ELSE ScheduleBeaconStart
  /\ UNCHANGED <<configured, ap, http, https, timerAt>>

(* Faulty variant: a task told to stop is taken to be running. *)
StartDnsAlready(t) ==
  /\ At(t) = "startDns"
  /\ dns' = IF dns = "none" THEN "serving" ELSE dns
  /\ stale' = ~ap
  /\ Follow(t)

(* captive_dns::Start takes back a stop the task has not seen yet, or waits *)
(* for its end and starts another one, which may fail.                      *)
StartDns(t) ==
  /\ At(t) = "startDns"
  /\ dns' \in IF dns = "serving" THEN {"serving"} ELSE {"serving", "failed"}
  /\ stale' = ~ap
  /\ Follow(t)

StopDns(t) ==
  /\ At(t) = "stopDns"
  /\ dns' = IF dns = "serving" THEN "stopping" ELSE dns
  /\ stale' = ap
  /\ Follow(t)

DnsTask ==
  /\ dns = "stopping"
  /\ dns' = "none"
  /\ UNCHANGED <<stale, apVars, httpsVars, beaconVars>>

ReturnMode(t) ==
  /\ Return(t)
  /\ UNCHANGED <<configured, ap, dnsVars, httpsVars, beaconVars>>

SetApMode(t) ==
  \/ CallSetApMode(t) \/ StationEvent(t) \/ DecideMode(t) \/ Switch(t) \/ ReadPortal(t)
  \/ StartDns(t) \/ StopDns(t) \/ ReturnMode(t)

(* A claim is saved, or the device key dropped. *)
Provision ==
  /\ configured' = ~configured
  /\ UNCHANGED <<ap, call, dnsVars, httpsVars, beaconVars>>

Next ==
  \/ \E t \in Tasks : SetApMode(t)
  \/ Beacon \/ Listeners \/ DnsTask \/ Provision

Spec == Init /\ [][Next]_vars

-----------------------------------------------------------------------------
(* Properties *)

(* Every variable has its type, and only a stack in step with its controller *)
(* advertises.                                                               *)
TypeOK ==
  /\ ApTypeOK /\ (advertising => stack = "ready")
  /\ dns \in {"none", "serving", "stopping", "failed"}
  /\ http \in BOOLEAN /\ https \in {"up", "down", "failed"} /\ httpsDue \in BOOLEAN
  /\ timerAt \in {"idle", "start", "restart"}
  /\ wanted \in BOOLEAN /\ stack \in {"off", "starting", "ready", "failed"}
  /\ advertising \in BOOLEAN /\ pending \in BOOLEAN /\ stale \in BOOLEAN /\ late \in BOOLEAN
  /\ starter \in [Starters -> {"none", "created", "checked", "hook"}]

(* No call of SetApMode has switched without having refreshed the services. *)
Refreshed == \A t \in Tasks : At(t) \notin {"refresh", "startDns", "stopDns"}

(* http_server.cpp:1134-1139, 1246-1256: the phone needs the memory of the   *)
(* HTTPS listener.  It listens beside the portal only while the timer that   *)
(* stops it is armed or a call that arms it is under way, and without the    *)
(* portal it is missing only if it could not start; also when switches       *)
(* overlap one another or a restart of the listeners.                        *)
HttpsFollowsPortal ==
  Refreshed /\ ~httpsDue /\ timerAt = "idle" /\ http
    => https # (IF ap THEN "up" ELSE "down")

(* wifi_manager.cpp:64-77: the captive sheet needs the DNS for the whole life *)
(* of the SoftAP.  Once the calls have refreshed it, it serves while the      *)
(* portal is up unless it could not start, and is not left serving without   *)
(* it, whatever stops and starts of its task overlap, unless the last of     *)
(* them had looked before a switch.                                           *)
DnsFollowsPortal ==
  Refreshed /\ ~stale
    => dns \in IF ap THEN {"serving", "failed"} ELSE {"none", "stopping", "failed"}

(* wifi_manager.cpp:167-170, 216: NimBLE beside the SoftAP runs out of       *)
(* memory.  While the portal is up nothing advertises and no later sync of   *)
(* the stack will, unless a start that looked before the portal was raised   *)
(* came after it.                                                            *)
BeaconYields == ap /\ ~late => ~advertising /\ ~wanted

=============================================================================
