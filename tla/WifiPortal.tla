----------------------------- MODULE WifiPortal -----------------------------
(***************************************************************************)
(* main/wifi_manager.cpp: the station link of the ESP32 reader and the     *)
(* setup portal on its SoftAP.  Wi-Fi events arrive on the sys_evt task,   *)
(* the portal's timers on the esp_timer task; clicks of the BOOT button,   *)
(* the handlers of /setup and every task that learns of a rejected key     *)
(* ask for the portal or its end.  g_mutex guards the variables, not the   *)
(* calls of SetApMode in between.                                          *)
(***************************************************************************)
EXTENDS ApMode, Naturals, Sequences

CONSTANTS
  FailuresBeforePortal,   \* kFailuresBeforePortal
  MaxEvents               \* bound: Wi-Fi events that wait for the sys_evt task

ASSUME WifiTasks == {"sys", "timer"} \subseteq Tasks
ASSUME FailuresAssumption == FailuresBeforePortal \in Nat \ {0}
ASSUME EventsAssumption == MaxEvents \in Nat \ {0}

VARIABLES
  goal,         \* what each task is in the middle of
  link,         \* the station as the radio sees it
  events,       \* Wi-Fi events that wait for sys_evt
  retry,        \* g_reconnect_timer is armed
  connected,    \* g_connected
  failures,     \* g_failures, as far as it is compared
  hold,         \* g_portal_hold
  phase,        \* app::State: wifi_phase_
  ttl,          \* g_portal_ttl_timer is armed
  closing,      \* g_close_portal_timer is armed
  deaf,         \* history: the last attempt to raise the portal failed
  crossed,      \* history: SetApMode decided while another call of it switched
  loose         \* history: the timers were stopped with the portal up, online

linkVars == <<link, events, retry>>
stationVars == <<connected, failures, phase>>
portalVars == <<hold, ttl, closing>>
historyVars == <<deaf, crossed, loose>>
wifiVars == <<apVars, goal, linkVars, stationVars, portalVars, historyVars>>

Goals == {"none", "reset", "force", "dismiss", "ttl", "drop", "publish",
          "online", "reconnect", "release", "claim", "claimed"}
Others == Tasks \ {"sys", "timer"}

Free(t) == At(t) = "out" /\ goal[t] = "none"
Pursue(t, g) == goal' = [goal EXCEPT ![t] = g]
TaskOnly == UNCHANGED <<configured, ap, call>>

WifiInit ==
  /\ ApInit
  /\ goal = [t \in Tasks |-> "none"]
  /\ link \in IF configured THEN {"trying"} ELSE {"trying", "down"}
  /\ events = <<>> /\ retry = FALSE
  /\ connected = FALSE /\ failures = 0
  /\ phase = IF link = "down" THEN "provisioning" ELSE "connecting"
  /\ hold = ~configured /\ ttl = FALSE /\ closing = FALSE
  /\ deaf = FALSE /\ crossed = FALSE /\ loose = FALSE

-----------------------------------------------------------------------------
(* SetApMode on behalf of a task *)

(* SchedulePortalTtlIfNeeded: only a portal beside a live station closes. *)
Scheduled(up, online) == up /\ online

DecideFor(t) ==
  /\ Decide(t)
  /\ ttl' = IF At(t)' = "ok" /\ call'[t].want = "raise" /\ call[t].want = "raise"
            THEN Scheduled(ap, connected) ELSE ttl
  /\ crossed' = (crossed \/ \E u \in Tasks : At(u) = "switch")
  /\ UNCHANGED <<goal, linkVars, stationVars, hold, closing, deaf, loose>>

SwitchFor(t) ==
  /\ SwitchMode(t, "ok")
  /\ ttl' = IF At(t)' = "ok" THEN Scheduled(ap', connected) ELSE ttl
  /\ deaf' = IF call[t].want = "raise" THEN At(t)' = "failed" ELSE deaf
  /\ loose' = (loose \/ (At(t)' = "failed" /\ call[t].want = "lower"))
  /\ UNCHANGED <<goal, linkVars, stationVars, hold, closing, crossed>>

(* What each caller does with the outcome. *)
ForcePortalEnds(t) ==
  /\ goal[t] = "force" /\ Return(t) /\ Pursue(t, "none")
  /\ IF At(t) = "ok"
     THEN /\ failures' = FailuresBeforePortal /\ phase' = "provisioning"
          /\ ttl' = Scheduled(ap, connected)
          /\ UNCHANGED hold
     ELSE hold' = FALSE /\ UNCHANGED <<failures, phase, ttl>>
  /\ UNCHANGED <<configured, ap, linkVars, connected, closing, historyVars>>

(* Faulty variant: whoever closed the portal publishes that it is connected. *)
PublishBlindly(t) ==
  /\ goal[t] = "publish" /\ Return(t) /\ Pursue(t, "none")
  /\ phase' = IF At(t) = "ok" THEN "connected" ELSE phase
  /\ UNCHANGED <<configured, ap, linkVars, connected, failures, portalVars,
                 historyVars>>

PublishConnected(t) ==
  /\ goal[t] = "publish" /\ Return(t) /\ Pursue(t, "none")
  /\ phase' = IF At(t) = "ok" /\ connected THEN "connected" ELSE phase
  /\ UNCHANGED <<configured, ap, linkVars, connected, failures, portalVars,
                 historyVars>>

EventEnds ==
  /\ goal["sys"] \in {"online", "reconnect"} /\ Return("sys") /\ Pursue("sys", "none")
  /\ retry' = (retry \/ goal["sys"] = "reconnect")
  /\ UNCHANGED <<configured, ap, link, events, stationVars, portalVars, historyVars>>

SetApModeFor(t) ==
  DecideFor(t) \/ SwitchFor(t) \/ ForcePortalEnds(t) \/ PublishConnected(t)

-----------------------------------------------------------------------------
(* The station *)

StationOnly == UNCHANGED <<apVars, goal, stationVars, portalVars, historyVars>>

(* The radio and the access point of the building. *)
LinkUp ==
  /\ link = "trying" /\ Len(events) < MaxEvents
  /\ link' = "up" /\ events' = Append(events, "got_ip")
  /\ UNCHANGED retry /\ StationOnly

LinkDown ==
  /\ link # "down" /\ Len(events) < MaxEvents
  /\ link' = "down" /\ events' = Append(events, "disconnected")
  /\ UNCHANGED retry /\ StationOnly

ReconnectTimerFired ==
  /\ Free("timer") /\ retry
  /\ retry' = FALSE
  /\ link' = IF link = "down" THEN "trying" ELSE link
  /\ UNCHANGED events /\ StationOnly

AtMost(n, bound) == IF n < bound THEN n ELSE bound

(* Faulty variant: the attempt that raises the portal is the last one. *)
DisconnectedNoRetry ==
  /\ Free("sys") /\ events # <<>> /\ Head(events) = "disconnected"
  /\ events' = Tail(events)
  /\ connected' = FALSE
  /\ failures' = AtMost(failures + 1, FailuresBeforePortal)
  /\ IF failures' = FailuresBeforePortal
     THEN /\ phase' = "provisioning" /\ Ask("sys", "raise") /\ Pursue("sys", "online")
          /\ UNCHANGED retry
     ELSE phase' = "connecting" /\ retry' = TRUE /\ UNCHANGED <<call, goal>>
  /\ UNCHANGED <<configured, ap, link, portalVars, historyVars>>

Disconnected ==
  /\ Free("sys") /\ events # <<>> /\ Head(events) = "disconnected"
  /\ events' = Tail(events)
  /\ connected' = FALSE
  /\ failures' = AtMost(failures + 1, FailuresBeforePortal)
  /\ IF failures' = FailuresBeforePortal
     THEN /\ phase' = "provisioning" /\ Ask("sys", "raise") /\ Pursue("sys", "reconnect")
          /\ UNCHANGED retry
     ELSE phase' = "connecting" /\ retry' = TRUE /\ UNCHANGED <<call, goal>>
  /\ UNCHANGED <<configured, ap, link, portalVars, historyVars>>

(* A held portal, or one before the claim, survives the station coming up. *)
GotIp ==
  /\ Free("sys") /\ events # <<>> /\ Head(events) = "got_ip"
  /\ events' = Tail(events)
  /\ connected' = TRUE /\ failures' = 0
  /\ IF hold \/ ~configured
     THEN /\ hold' = TRUE /\ ttl' = Scheduled(ap, TRUE) /\ phase' = "provisioning"
          /\ UNCHANGED <<call, goal>>
     ELSE /\ phase' = "connected" /\ UNCHANGED <<hold, ttl>>
          /\ IF ap THEN Ask("sys", "lower") /\ Pursue("sys", "online")
             ELSE UNCHANGED <<call, goal>>
  /\ UNCHANGED <<configured, ap, link, retry, closing, historyVars>>

OnWifiEvent == Disconnected \/ GotIp \/ EventEnds

-----------------------------------------------------------------------------
(* The portal's timers, on the esp_timer task *)

PortalOnly == UNCHANGED <<linkVars, stationVars, historyVars>>

TtlFires ==
  /\ Free("timer") /\ ttl
  /\ ttl' = FALSE /\ Pursue("timer", "ttl")
  /\ TaskOnly /\ PortalOnly /\ UNCHANGED <<hold, closing>>

(* Faulty variant: an abandoned portal is only released. *)
PortalTtlReleases ==
  /\ goal["timer"] = "ttl"
  /\ hold' = FALSE /\ Pursue("timer", "none")
  /\ TaskOnly /\ PortalOnly /\ UNCHANGED <<ttl, closing>>

PortalTtlFired ==
  /\ goal["timer"] = "ttl"
  /\ hold' = FALSE
  /\ IF ap /\ connected THEN Ask("timer", "lower") /\ Pursue("timer", "publish")
     ELSE Pursue("timer", "none") /\ UNCHANGED call
  /\ PortalOnly /\ UNCHANGED <<configured, ap, ttl, closing>>

CloseFires ==
  /\ Free("timer") /\ closing
  /\ closing' = FALSE
  /\ Pursue("timer", IF configured THEN "drop" ELSE "none")
  /\ TaskOnly /\ PortalOnly /\ UNCHANGED <<hold, ttl>>

ClosePortalTimerFired ==
  /\ goal["timer"] = "drop"
  /\ hold' = FALSE /\ ttl' = FALSE
  /\ Ask("timer", "lower") /\ Pursue("timer", "publish")
  /\ PortalOnly /\ UNCHANGED <<configured, ap, closing>>

TimerTask ==
  \/ ReconnectTimerFired \/ TtlFires \/ PortalTtlFired
  \/ CloseFires \/ ClosePortalTimerFired

-----------------------------------------------------------------------------
(* Tasks that ask for the portal or for its end *)

ForcePortal(t) ==
  /\ t \in Others
  /\ Free(t) \/ goal[t] = "reset"
  /\ closing' = FALSE /\ hold' = TRUE
  /\ Ask(t, "raise") /\ Pursue(t, "force")
  /\ PortalOnly /\ UNCHANGED <<configured, ap, ttl>>

(* EnterSetupMode drops the key and then forces the portal. *)
EnterSetupMode(t) ==
  /\ t \in Others /\ Free(t)
  /\ configured' = FALSE
  /\ Pursue(t, "reset")
  /\ PortalOnly /\ UNCHANGED <<ap, call, portalVars>>

(* A click of BOOT while the portal is up and the station online. *)
ClickWhilePortal(t) ==
  /\ t \in Others /\ Free(t)
  /\ ap /\ connected /\ configured
  /\ Pursue(t, "dismiss")
  /\ TaskOnly /\ PortalOnly /\ UNCHANGED portalVars

DismissPortal(t) ==
  /\ goal[t] = "dismiss"
  /\ closing' = FALSE /\ hold' = FALSE /\ ttl' = FALSE
  /\ IF ap /\ connected THEN Ask(t, "lower") /\ Pursue(t, "publish")
     ELSE Pursue(t, "none") /\ UNCHANGED call
  /\ PortalOnly /\ UNCHANGED <<configured, ap>>

(* A provisioned reader takes /setup writes from its portal only; before    *)
(* that they come over the station as well.                                  *)
WritesArrive == ap \/ (~configured /\ link = "up")

(* HandleWifiSave: stores the credentials, re-points the station and, on a *)
(* provisioned reader, lets the next GOT_IP close the portal.              *)
ApplyCredentials(t) ==
  /\ t \in Others /\ Free(t) /\ WritesArrive
  /\ Len(events) < MaxEvents
  /\ failures' = 0 /\ connected' = FALSE /\ phase' = "connecting"
  /\ link' = "trying"
  /\ events' = IF link = "down" THEN events ELSE Append(events, "disconnected")
  /\ \/ configured /\ Pursue(t, "release")
     \/ ~configured /\ \E g \in {"none", "claim"} : Pursue(t, g)
  /\ TaskOnly /\ UNCHANGED <<retry, portalVars, historyVars>>

ReleasePortalHold(t) ==
  /\ goal[t] = "release"
  /\ hold' = FALSE /\ ttl' = FALSE
  /\ loose' = (loose \/ (ap /\ connected))
  /\ Pursue(t, "none")
  /\ TaskOnly /\ UNCHANGED <<linkVars, stationVars, closing, deaf, crossed>>

(* WaitForStation gave up, or Identity refused the claim. *)
ClaimRefused(t) ==
  /\ goal[t] = "claim"
  /\ Pursue(t, "none")
  /\ TaskOnly /\ PortalOnly /\ UNCHANGED portalVars

(* The claim sent with the credentials waits for g_connected; the one of the *)
(* setup page, or a save by hand, does not.  Identity must have answered.    *)
ClaimSaved(t) ==
  /\ t \in Others /\ link = "up"
  /\ \/ goal[t] = "claim" /\ connected
     \/ Free(t) /\ WritesArrive
  /\ configured' = TRUE
  /\ Pursue(t, "claimed")
  /\ PortalOnly /\ UNCHANGED <<ap, call, portalVars>>

ClosePortalAfterSetup(t) ==
  /\ goal[t] = "claimed"
  /\ hold' = FALSE /\ ttl' = FALSE /\ closing' = TRUE
  /\ Pursue(t, "none")
  /\ TaskOnly /\ PortalOnly

Caller(t) ==
  \/ ForcePortal(t) \/ EnterSetupMode(t) \/ ClickWhilePortal(t) \/ DismissPortal(t)
  \/ ApplyCredentials(t) \/ ReleasePortalHold(t)
  \/ ClaimRefused(t) \/ ClaimSaved(t) \/ ClosePortalAfterSetup(t)

WifiNext ==
  \/ LinkUp \/ LinkDown \/ OnWifiEvent \/ TimerTask
  \/ \E t \in Tasks : SetApModeFor(t) \/ Caller(t)

WifiSpec == WifiInit /\ [][WifiNext]_wifiVars

(* The tasks run, esp_timer dispatches what is due, and the radio answers an *)
(* attempt; nobody has to click, save or come back.                          *)
Fairness ==
  /\ WF_wifiVars(OnWifiEvent) /\ WF_wifiVars(LinkUp \/ LinkDown)
  /\ WF_wifiVars(ReconnectTimerFired) /\ WF_wifiVars(TtlFires) /\ WF_wifiVars(PortalTtlFired)
  /\ WF_wifiVars(CloseFires) /\ WF_wifiVars(ClosePortalTimerFired)
  /\ \A t \in Tasks : WF_wifiVars(SetApModeFor(t))

FairSpec == WifiSpec /\ Fairness

-----------------------------------------------------------------------------
(* Properties *)

(* Every variable has its type, and the queue of events its bound. *)
WifiTypeOK ==
  /\ ApTypeOK
  /\ goal \in [Tasks -> Goals]
  /\ link \in {"down", "trying", "up"} /\ retry \in BOOLEAN
  /\ events \in Seq({"disconnected", "got_ip"}) /\ Len(events) <= MaxEvents
  /\ connected \in BOOLEAN /\ failures \in 0 .. FailuresBeforePortal
  /\ phase \in {"connecting", "provisioning", "connected"}
  /\ hold \in BOOLEAN /\ ttl \in BOOLEAN /\ closing \in BOOLEAN
  /\ deaf \in BOOLEAN /\ crossed \in BOOLEAN /\ loose \in BOOLEAN

(* Nobody is between the lock and the radio. *)
Settled == \A t \in Tasks : Free(t)

(* A reader that lost its key, or never had one, offers its portal: unless  *)
(* the last raise failed, or two tasks were inside SetApMode at once, it is  *)
(* up whenever no task is at work on it.  wifi_manager.cpp:200-209.          *)
PortalKept == Settled /\ ~configured /\ ~crossed /\ ~deaf => ap

(* An open portal beside a working station is about to be closed: a timer    *)
(* is armed, whichever tasks raised, kept, dismissed or saved it in between. *)
(* wifi_manager.cpp:33-36, 119-144.                                          *)
NeverLingers == Settled /\ ap /\ connected /\ configured /\ ~loose => ttl \/ closing

(* The LED and /health say connected only while the station is, although the *)
(* phase is published after calls of SetApMode made outside the mutex.       *)
PhaseIsHonest == phase = "connected" => connected

(* An unattended reader is reachable again and again: its station connects,  *)
(* or its portal is up, or the radio refused the portal.  Every event but a   *)
(* successful one leads to a further attempt.  wifi_manager.cpp:250-278.     *)
OfflineReachable == []<>(connected \/ ap \/ deaf)

=============================================================================
