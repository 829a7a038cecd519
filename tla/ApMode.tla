------------------------------- MODULE ApMode -------------------------------
(***************************************************************************)
(* SetApMode of main/wifi_manager.cpp: raises and lowers the SoftAP that   *)
(* carries the setup portal.  The Wi-Fi event task, the timer task, the    *)
(* button task and every task that loses the device key call it, and it    *)
(* does not run under g_mutex: it compares, switches the radio, and then   *)
(* refreshes what depends on it.  PortalServices models what follows a     *)
(* switch, WifiPortal who asks for it.                                     *)
(***************************************************************************)
CONSTANT Tasks      \* tasks that call SetApMode

VARIABLES
  configured,   \* app::State: config_.configured
  ap,           \* g_ap_active
  call          \* where each task is in SetApMode, and what it wants

apVars == <<configured, ap, call>>

Places ==
  {"out", "decide", "switch", "refresh", "startDns", "stopDns", "ok", "failed"}

Wants == {"raise", "lower", "refresh"}
Outside == [at |-> "out", want |-> "refresh"]

At(t) == call[t].at
GoTo(t, place) == call' = [call EXCEPT ![t].at = place]

Ask(t, want) == call' = [call EXCEPT ![t] = [at |-> "decide", want |-> want]]

Return(t) ==
  /\ At(t) \in {"ok", "failed"}
  /\ call' = [call EXCEPT ![t] = Outside]

ApInit ==
  /\ configured \in BOOLEAN
  /\ ap = ~configured
  /\ call = [t \in Tasks |-> Outside]

(* Faulty variant: a reader without a key lowers its portal like any other. *)
WantedAsAsked(t) == call[t].want

(* Before it is provisioned a reader keeps its portal, whoever lowers it. *)
Wanted(t) == IF configured THEN call[t].want ELSE "raise"

Decide(t) ==
  /\ At(t) = "decide"
  /\ call' = [call EXCEPT ![t] =
       [at |-> IF (Wanted(t) = "raise") = ap THEN "ok" ELSE "switch",
        want |-> Wanted(t)]]
  /\ UNCHANGED <<configured, ap>>

(* esp_wifi_set_mode may fail; then SetApMode returns at once. *)
SwitchMode(t, next) ==
  /\ At(t) = "switch"
  /\ \/ ap' = (call[t].want = "raise") /\ GoTo(t, next)
     \/ ap' = ap /\ GoTo(t, "failed")
  /\ UNCHANGED configured

ApTypeOK ==
  /\ configured \in BOOLEAN /\ ap \in BOOLEAN
  /\ call \in [Tasks -> [at : Places, want : Wants]]

=============================================================================
