---------------------------- MODULE PortalProofs ----------------------------
(***************************************************************************)
(* Proofs about the two halves of the setup portal, which share SetApMode  *)
(* (ApMode): PortalServices, what follows a switch of the SoftAP, and      *)
(* WifiPortal, who asks for it.  For any number of tasks that switch, of   *)
(* beacon starts under way, of Wi-Fi events that wait and of failures      *)
(* before the portal is raised.                                            *)
(***************************************************************************)
EXTENDS PortalServices, WifiPortal, TLAPS

-----------------------------------------------------------------------------
(* What follows a switch: PortalServices *)

Refreshing == {"refresh", "startDns", "stopDns"}

(* A call of SetApMode has switched and has not refreshed the services yet. *)
Switching == \E t \in Tasks : At(t) \in Refreshing /\ call[t].want # "refresh"

Raising == \E t \in Tasks : call[t] = [at |-> "switch", want |-> "raise"]

(* Who is about to switch wants the portal or its end. *)
SwitchesAreWanted == \A t \in Tasks : At(t) \in {"decide", "switch"} => call[t].want # "refresh"

(* A restart has stopped every listener; and the timer starts the HTTPS      *)
(* listener only without a portal, unless it will hear of the switch.        *)
HttpsIsDue ==
  /\ timerAt = "restart" => ~http /\ https = "down"
  /\ http /\ ~httpsDue /\ ~Switching =>
       /\ timerAt = "idle" => https # (IF ap THEN "up" ELSE "down")
       /\ timerAt = "start" => ~ap

DnsIsDue ==
  ~Switching /\ ~stale
    => dns \in IF ap THEN {"serving", "failed"} ELSE {"none", "stopping", "failed"}

(* The pause holds from the decision to raise the portal on. *)
BeaconPaused == (ap \/ Raising) /\ ~late => ~advertising /\ ~wanted

IInv == TypeOK /\ SwitchesAreWanted /\ HttpsIsDue /\ DnsIsDue /\ BeaconPaused

-----------------------------------------------------------------------------
(* Steps that leave the calls of SetApMode alone *)

(* What a step that changes none of the calls keeps of their invariants. *)
LEMMA SameCalls ==
  ASSUME UNCHANGED call
  PROVE  /\ Switching' = Switching /\ Raising' = Raising
         /\ SwitchesAreWanted' = SwitchesAreWanted
BY DEF Switching, Raising, SwitchesAreWanted, At

(* Starts, settings and sync callbacks of the beacon preserve the invariant. *)
LEMMA BeaconInv ==
  ASSUME IInv, Beacon
  PROVE  IInv'
<1> USE DEF apVars, dnsVars, httpsVars
<1>1. UNCHANGED <<apVars, dnsVars, httpsVars>>
  BY DEF Beacon, BeaconStartTask, BeginHook, ApplyConfig, OnSync, OnReset
<1>2. (SwitchesAreWanted /\ HttpsIsDue /\ DnsIsDue)'
  BY <1>1, SameCalls DEF IInv, HttpsIsDue, DnsIsDue
<1>3. ASSUME NEW b \in Starters, BeaconStartTask(b) \/ BeginHook(b)
      PROVE  (TypeOK /\ BeaconPaused)'
  <2>1. /\ UNCHANGED <<wanted, stack, advertising, late>> /\ pending' \in BOOLEAN
        /\ starter' \in [Starters -> {"none", "created", "checked", "hook"}]
    BY <1>3 DEF BeaconStartTask, BeginHook, IInv, TypeOK
  <2>. QED BY <1>1, <2>1, SameCalls DEF IInv, TypeOK, ApTypeOK, BeaconPaused
<1>4. ASSUME NEW b \in Starters, ApplyConfig(b)
      PROVE  (TypeOK /\ BeaconPaused)'
  <2>1. late' = (late \/ ap \/ Raising)
    BY <1>4 DEF ApplyConfig, Raising
  <2>2. /\ late' \in BOOLEAN /\ (late' <=> late \/ ap \/ Raising)
    BY <2>1 DEF IInv, TypeOK, ApTypeOK, Raising
  <2>3. /\ wanted' \in BOOLEAN /\ advertising' \in BOOLEAN /\ pending' \in BOOLEAN
        /\ stack' \in {"off", "starting", "ready", "failed"}
        /\ advertising' => stack' = "ready"
    BY <1>4 DEF ApplyConfig, IInv, TypeOK
  <2>4. starter' \in [Starters -> {"none", "created", "checked", "hook"}]
    BY <1>4 DEF ApplyConfig, IInv, TypeOK
  <2>5. TypeOK'
    BY <1>1, <2>2, <2>3, <2>4 DEF IInv, TypeOK, ApTypeOK
  <2>6. BeaconPaused'
    BY <1>1, <2>2, SameCalls DEF BeaconPaused
  <2>. QED BY <2>5, <2>6
<1>5. ASSUME OnSync \/ OnReset
      PROVE  (TypeOK /\ BeaconPaused)'
  <2>1. /\ UNCHANGED <<wanted, pending, starter, late>>
        /\ advertising' \in {FALSE, wanted} /\ stack' \in {"starting", "ready"}
        /\ advertising' => stack' = "ready"
    BY <1>5 DEF OnSync, OnReset
  <2>2. TypeOK'
    <3>1. advertising' \in BOOLEAN
      BY <2>1 DEF IInv, TypeOK
    <3>. QED BY <1>1, <2>1, <3>1 DEF IInv, TypeOK, ApTypeOK
  <2>3. BeaconPaused'
    BY <1>1, <2>1, SameCalls DEF IInv, TypeOK, BeaconPaused
  <2>. QED BY <2>2, <2>3
<1>. QED BY <1>2, <1>3, <1>4, <1>5 DEF Beacon, IInv

(* The esp_timer task runs one callback at a time. *)
LEMMA ListenersInv ==
  ASSUME IInv, Listeners
  PROVE  IInv'
<1> USE DEF apVars, dnsVars, beaconVars, TimerOnly
<1>1. UNCHANGED <<apVars, dnsVars, beaconVars>>
  BY DEF Listeners, ApplyLanHttps, StartHttpsServer, RestartOnPendingPort, StartOn
<1>2. (SwitchesAreWanted /\ DnsIsDue /\ BeaconPaused)'
  BY <1>1, SameCalls DEF IInv, DnsIsDue, BeaconPaused
<1>3. TypeOK'
  <2>1. /\ http' \in BOOLEAN /\ httpsDue' \in BOOLEAN
        /\ https' \in {"up", "down", "failed"} /\ timerAt' \in {"idle", "start", "restart"}
    <3>1. CASE ApplyLanHttps
      BY <3>1 DEF ApplyLanHttps, IInv, TypeOK
    <3>2. CASE StartHttpsServer
      BY <3>2 DEF StartHttpsServer, IInv, TypeOK
    <3>3. CASE RestartOnPendingPort
      BY <3>3 DEF RestartOnPendingPort, IInv, TypeOK
    <3>4. CASE StartOn
      BY <3>4 DEF StartOn, IInv, TypeOK
    <3>. QED BY <3>1, <3>2, <3>3, <3>4 DEF Listeners
  <2>. QED BY <1>1, <2>1 DEF IInv, TypeOK, ApTypeOK
<1>4. HttpsIsDue'
  <2>1. CASE ApplyLanHttps
    BY <1>1, <2>1, SameCalls DEF ApplyLanHttps, IInv, TypeOK, HttpsIsDue
  <2>2. CASE StartHttpsServer
    BY <1>1, <2>2, SameCalls DEF StartHttpsServer, IInv, TypeOK, HttpsIsDue
  <2>3. CASE RestartOnPendingPort
    BY <1>1, <2>3, SameCalls DEF RestartOnPendingPort, IInv, TypeOK, HttpsIsDue
  <2>4. CASE StartOn
    BY <1>1, <2>4, SameCalls DEF StartOn, IInv, TypeOK, HttpsIsDue
  <2>. QED BY <2>1, <2>2, <2>3, <2>4 DEF Listeners
<1>. QED BY <1>2, <1>3, <1>4 DEF IInv

-----------------------------------------------------------------------------
(* Steps of a call *)

(* A call that moves on within its refresh, or begins or returns, changes   *)
(* nothing the other calls are part of.                                     *)
LEMMA CallMoves ==
  ASSUME IInv, NEW t \in Tasks, NEW place \in Places, NEW want \in Wants,
         call' = [call EXCEPT ![t] = [at |-> place, want |-> want]],
         place # "switch",
         place = "decide" => want # "refresh"
  PROVE  /\ call' \in [Tasks -> [at : Places, want : Wants]]
         /\ SwitchesAreWanted' /\ (Raising' => Raising)
BY DEF IInv, TypeOK, ApTypeOK, SwitchesAreWanted, Raising, At, Places, Wants

(* GoTo changes where a call is and keeps what it wants. *)
LEMMA GoToMoves ==
  ASSUME TypeOK, NEW t \in Tasks, NEW place, GoTo(t, place)
  PROVE  call' = [call EXCEPT ![t] = [at |-> place, want |-> call[t].want]]
<1>1. call \in [Tasks -> [at : Places, want : Wants]] /\ call[t] \in [at : Places, want : Wants]
  BY DEF TypeOK, ApTypeOK
<1>2. call' = [call EXCEPT ![t] = [call[t] EXCEPT !.at = place]]
  BY DEF GoTo
<1>3. [call[t] EXCEPT !.at = place] = [at |-> place, want |-> call[t].want]
  BY <1>1
<1>. QED BY <1>2, <1>3

(* A call of SetApMode, up to the choice of its mode, preserves it. *)
LEMMA CallInv ==
  ASSUME IInv, NEW t \in Tasks,
         CallSetApMode(t) \/ StationEvent(t) \/ ReturnMode(t) \/ ReadPortal(t)
  PROVE  IInv'
<1> USE DEF apVars, dnsVars, httpsVars, beaconVars
<1>1. UNCHANGED <<configured, ap, dnsVars, httpsVars, beaconVars>>
  BY DEF CallSetApMode, StationEvent, ReturnMode, ReadPortal
<1>2. call[t] \in [at : Places, want : Wants] /\ call \in [Tasks -> [at : Places, want : Wants]]
  BY DEF IInv, TypeOK, ApTypeOK
<1>3. PICK place \in Places, want \in Wants :
        /\ call' = [call EXCEPT ![t] = [at |-> place, want |-> want]]
        /\ place # "switch" /\ (place = "decide" => want # "refresh")
        /\ (At(t) \in Refreshing /\ call[t].want # "refresh")
             => (place \in Refreshing /\ want # "refresh")
  <2>1. CASE CallSetApMode(t)
    <3>1. PICK asked \in {"raise", "lower"} :
            call' = [call EXCEPT ![t] = [at |-> "decide", want |-> asked]]
      BY <2>1 DEF CallSetApMode, Ask
    <3>. QED BY <2>1, <3>1 DEF CallSetApMode, At, Refreshing, Places, Wants
  <2>2. CASE StationEvent(t)
    <3>1. call' = [call EXCEPT ![t] = [at |-> "refresh", want |-> call[t].want]]
      BY <2>2, GoToMoves DEF StationEvent, IInv
    <3>. QED BY <1>2, <2>2, <3>1 DEF StationEvent, At, Refreshing, Places
  <2>3. CASE ReturnMode(t)
    <3>1. call' = [call EXCEPT ![t] = [at |-> "out", want |-> "refresh"]]
      BY <2>3 DEF ReturnMode, Return, Outside
    <3>. QED BY <2>3, <3>1 DEF ReturnMode, Return, At, Refreshing, Places, Wants
  <2>4. CASE ReadPortal(t)
    <3>1. call' = [call EXCEPT ![t] = [at |-> IF ap THEN "startDns" ELSE "stopDns",
                                        want |-> call[t].want]]
      BY <2>4, GoToMoves DEF ReadPortal, IInv
    <3>. QED BY <1>2, <2>4, <3>1 DEF ReadPortal, At, Refreshing, Places, Wants
  <2>. QED BY <2>1, <2>2, <2>3, <2>4
<1>4. /\ call' \in [Tasks -> [at : Places, want : Wants]]
      /\ SwitchesAreWanted' /\ (Raising' => Raising)
  BY <1>3, CallMoves, Zenon
<1>5. Switching => Switching'
  BY <1>2, <1>3 DEF Switching, At
<1>. QED BY <1>1, <1>4, <1>5
         DEF IInv, TypeOK, ApTypeOK, HttpsIsDue, DnsIsDue, BeaconPaused

(* Who decides to raise the portal has the beacon stopped first. *)
LEMMA DecideInv ==
  ASSUME IInv, NEW t \in Tasks, DecideMode(t)
  PROVE  IInv'
<1> USE DEF apVars, dnsVars, httpsVars, beaconVars
<1>1. call[t] \in [at : Places, want : Wants] /\ call \in [Tasks -> [at : Places, want : Wants]]
  BY DEF IInv, TypeOK, ApTypeOK
<1>2. PICK place \in {"ok", "switch"}, want \in {"raise", "lower"} :
        call' = [call EXCEPT ![t] = [at |-> place, want |-> want]]
  <2>1. Wanted(t) \in {"raise", "lower"}
    BY <1>1 DEF DecideMode, Decide, IInv, SwitchesAreWanted, Wanted, Wants, At
  <2>. QED BY <2>1 DEF DecideMode, Decide
<1>3. At(t) = "decide" /\ UNCHANGED <<configured, ap, dnsVars, httpsVars, stack, starter, late>>
  BY DEF DecideMode, Decide, PauseBeacon
<1>4. call' \in [Tasks -> [at : Places, want : Wants]] /\ SwitchesAreWanted'
  BY <1>1, <1>2 DEF IInv, SwitchesAreWanted, At, Places, Wants
<1>5. Switching' = Switching
  BY <1>1, <1>2, <1>3 DEF Switching, At, Refreshing
<1>6. BeaconPaused'
  <2>1. CASE call'[t] = [at |-> "switch", want |-> "raise"]
    BY <2>1 DEF DecideMode, PauseBeacon, BeaconPaused
  <2>2. CASE call'[t] # [at |-> "switch", want |-> "raise"]
    <3>1. Raising' => Raising
      BY <1>1, <1>2, <2>2 DEF Raising
    <3>2. UNCHANGED beaconVars
      BY <2>2 DEF DecideMode
    <3>. QED BY <1>3, <3>1, <3>2 DEF IInv, BeaconPaused
  <2>. QED BY <2>1, <2>2
<1>7. TypeOK'
  <2>1. CASE PauseBeacon
    <3>1. wanted' \in BOOLEAN /\ advertising' \in BOOLEAN /\ pending' \in BOOLEAN
          /\ ~advertising'
      BY <2>1 DEF PauseBeacon
    <3>. QED BY <1>3, <1>4, <3>1 DEF IInv, TypeOK, ApTypeOK
  <2>2. CASE UNCHANGED beaconVars
    BY <1>3, <1>4, <2>2 DEF IInv, TypeOK, ApTypeOK
  <2>. QED BY <2>1, <2>2 DEF DecideMode
<1>. QED BY <1>3, <1>4, <1>5, <1>6, <1>7 DEF IInv, HttpsIsDue, DnsIsDue

(* A switch leaves its call to refresh what depends on the SoftAP. *)
LEMMA SwitchInv ==
  ASSUME IInv, NEW t \in Tasks, Switch(t)
  PROVE  IInv'
<1> USE DEF apVars, dnsVars, httpsVars, beaconVars
<1>1. call[t] \in [at : Places, want : Wants] /\ call \in [Tasks -> [at : Places, want : Wants]]
  BY DEF IInv, TypeOK, ApTypeOK
<1>2. /\ At(t) = "switch" /\ call[t].want # "refresh"
      /\ UNCHANGED <<configured, dnsVars, httpsVars, beaconVars>>
  BY DEF Switch, SwitchMode, IInv, SwitchesAreWanted
<1>3. PICK place \in {"refresh", "failed"} :
        /\ call' = [call EXCEPT ![t] = [at |-> place, want |-> call[t].want]]
        /\ place = "refresh" => ap' = (call[t].want = "raise")
        /\ place = "failed" => ap' = ap
  BY <1>1 DEF Switch, SwitchMode, GoTo
<1>4. /\ call' \in [Tasks -> [at : Places, want : Wants]]
      /\ SwitchesAreWanted' /\ (Raising' => Raising)
  BY <1>1, <1>3, CallMoves DEF Places
<1>5. ap' \in BOOLEAN
  BY <1>3 DEF IInv, TypeOK, ApTypeOK
<1>6. Switching => Switching'
  BY <1>1, <1>2, <1>3 DEF Switching, At, Refreshing
<1>7. place = "refresh" => Switching'
  BY <1>1, <1>2, <1>3 DEF Switching, At, Refreshing
<1>8. ap' => ap \/ Raising
  <2>1. call[t].want = "raise" => call[t] = [at |-> "switch", want |-> "raise"]
    BY <1>1, <1>2 DEF At
  <2>. QED BY <1>3, <2>1 DEF Raising
<1>. QED BY <1>2, <1>3, <1>4, <1>5, <1>6, <1>7, <1>8
         DEF IInv, TypeOK, ApTypeOK, HttpsIsDue, DnsIsDue, BeaconPaused

(* The last step of a refresh: a call that has switched arms the timer of    *)
(* the HTTPS listener.                                                       *)
LEMMA FollowInv ==
  ASSUME IInv, NEW t \in Tasks, StartDns(t) \/ StopDns(t)
  PROVE  IInv'
<1> USE DEF apVars, httpsVars
<1>1. call[t] \in [at : Places, want : Wants] /\ call \in [Tasks -> [at : Places, want : Wants]]
  BY DEF IInv, TypeOK, ApTypeOK
<1>2. /\ Follow(t) /\ At(t) \in {"startDns", "stopDns"}
      /\ call' = [call EXCEPT ![t] = [at |-> "ok", want |-> call[t].want]]
      /\ UNCHANGED <<configured, ap, http, https, timerAt>>
  BY <1>1 DEF StartDns, StopDns, Follow, GoTo
<1>3. /\ call' \in [Tasks -> [at : Places, want : Wants]]
      /\ SwitchesAreWanted' /\ (Raising' => Raising)
  BY <1>1, <1>2, CallMoves DEF Places
<1>4. call[t].want = "refresh" => Switching' = Switching
  BY <1>1, <1>2 DEF Switching, At, Refreshing
<1>5. HttpsIsDue'
  <2>1. CASE call[t].want = "refresh"
    <3>1. UNCHANGED httpsDue
      BY <1>2, <2>1 DEF Follow
    <3>. QED BY <1>2, <1>4, <2>1, <3>1 DEF IInv, HttpsIsDue
  <2>2. CASE call[t].want # "refresh"
    <3>1. httpsDue' = (httpsDue \/ http)
      BY <1>2, <2>2 DEF Follow, RefreshLanHttps
    <3>. QED BY <1>2, <3>1 DEF IInv, HttpsIsDue
  <2>. QED BY <2>1, <2>2
<1>6. DnsIsDue'
  <2>1. ap' = ap /\ ap \in BOOLEAN
    BY <1>2 DEF IInv, TypeOK, ApTypeOK
  <2>2. CASE StartDns(t)
    <3>1. dns' \in {"serving", "failed"} /\ stale' = ~ap
      BY <2>2 DEF StartDns
    <3>. QED BY <2>1, <3>1 DEF DnsIsDue
  <2>3. CASE StopDns(t)
    <3>1. /\ stale' = ap
          /\ dns' \in {"none", "stopping", "failed"}
      BY <2>3 DEF StopDns, IInv, TypeOK
    <3>. QED BY <2>1, <3>1 DEF DnsIsDue
  <2>. QED BY <2>2, <2>3
<1>7. BeaconPaused'
  BY <1>2, <1>3 DEF Follow, ScheduleBeaconStart, beaconVars, IInv, BeaconPaused
<1>8. TypeOK'
  <2>1. /\ dns' \in {"none", "serving", "stopping", "failed"} /\ stale' \in BOOLEAN
    BY DEF StartDns, StopDns, IInv, TypeOK, ApTypeOK
  <2>2. /\ httpsDue' \in BOOLEAN /\ UNCHANGED <<wanted, stack, advertising, late>>
        /\ pending' \in BOOLEAN
        /\ starter' \in [Starters -> {"none", "created", "checked", "hook"}]
    BY <1>2 DEF Follow, RefreshLanHttps, ScheduleBeaconStart, beaconVars, IInv, TypeOK
  <2>. QED BY <1>2, <1>3, <2>1, <2>2 DEF IInv, TypeOK, ApTypeOK
<1>. QED BY <1>3, <1>5, <1>6, <1>7, <1>8 DEF IInv

-----------------------------------------------------------------------------
(* The invariant *)

(* The invariant holds at the start. *)
LEMMA InitInv == Init => IInv
<1> SUFFICES ASSUME Init PROVE IInv
  OBVIOUS
<1>1. /\ configured \in BOOLEAN /\ ap \in BOOLEAN
      /\ call = [t \in Tasks |-> [at |-> "out", want |-> "refresh"]]
  BY DEF Init, ApInit, Outside
<1>2. call \in [Tasks -> [at : Places, want : Wants]] /\ SwitchesAreWanted
  BY <1>1 DEF SwitchesAreWanted, At, Places, Wants
<1>3. TypeOK
  BY <1>1, <1>2 DEF Init, TypeOK, ApTypeOK
<1>4. HttpsIsDue /\ DnsIsDue /\ BeaconPaused
  BY <1>1 DEF Init, HttpsIsDue, DnsIsDue, BeaconPaused
<1>. QED BY <1>2, <1>3, <1>4 DEF IInv

(* Every step preserves the invariant. *)
LEMMA NextInv == IInv /\ [Next]_vars => IInv'
<1> SUFFICES ASSUME IInv, [Next]_vars PROVE IInv'
  OBVIOUS
<1> USE DEF apVars, dnsVars, httpsVars, beaconVars
<1>1. CASE \E t \in Tasks : SetApMode(t)
  BY <1>1, CallInv, DecideInv, SwitchInv, FollowInv DEF SetApMode
<1>2. CASE Beacon \/ Listeners
  BY <1>2, BeaconInv, ListenersInv
<1>3. CASE DnsTask \/ Provision \/ UNCHANGED vars
  <2>1. UNCHANGED <<ap, call, stale, httpsVars, beaconVars>> /\ configured' \in BOOLEAN
    BY <1>3 DEF DnsTask, Provision, vars, IInv, TypeOK, ApTypeOK
  <2>2. dns' = dns \/ (dns = "stopping" /\ dns' = "none")
    BY <1>3 DEF DnsTask, Provision, vars
  <2>. QED BY <2>1, <2>2, SameCalls
           DEF IInv, TypeOK, ApTypeOK, HttpsIsDue, DnsIsDue, BeaconPaused
<1>. QED BY <1>1, <1>2, <1>3 DEF Next

(* The strengthened invariant of every reachable state. *)
THEOREM Invariance == Spec => []IInv
BY InitInv, NextInv, PTL DEF Spec

(* Every variable keeps its type, and only a ready stack advertises. *)
THEOREM TypeCorrect == Spec => []TypeOK
<1>1. IInv => TypeOK
  BY DEF IInv
<1>. QED BY <1>1, Invariance, PTL

(* http_server.cpp:1134-1139, 1246-1256: once the calls have refreshed, the  *)
(* HTTPS listener is there without the portal and gone beside it.            *)
THEOREM HttpsFollows == Spec => []HttpsFollowsPortal
<1>1. IInv => HttpsFollowsPortal
  BY DEF IInv, HttpsIsDue, HttpsFollowsPortal, Refreshed, Switching, Refreshing
<1>. QED BY <1>1, Invariance, PTL

(* wifi_manager.cpp:64-77: the DNS serves as long as the SoftAP lives. *)
THEOREM DnsFollows == Spec => []DnsFollowsPortal
<1>1. IInv => DnsFollowsPortal
  BY DEF IInv, DnsIsDue, DnsFollowsPortal, Refreshed, Switching, Refreshing
<1>. QED BY <1>1, Invariance, PTL

(* wifi_manager.cpp:167-170: no beacon beside the portal, unless a start     *)
(* that had looked before came after it.                                     *)
THEOREM BeaconPausedByPortal == Spec => []BeaconYields
<1>1. IInv => BeaconYields
  BY DEF IInv, BeaconPaused, BeaconYields
<1>. QED BY <1>1, Invariance, PTL

-----------------------------------------------------------------------------
(* Who asks for a switch: WifiPortal *)

Calls == [at : Places, want : Wants]

(* Whoever is there in SetApMode, with that goal, raises the portal of a     *)
(* reader without a key.                                                     *)
Raises(c, g) ==
  \/ g = "reset" \/ c.at = "decide"
  \/ c.at = "switch" /\ c.want = "raise"

(* Whoever is there lowers the portal, or arms a timer for it.               *)
Lowers(c, g) ==
  \/ g \in {"ttl", "drop", "claimed"}
  \/ c.at = "decide" /\ c.want # "refresh"
  \/ c.at = "switch" /\ c.want = "lower"

Lingering == ap /\ connected /\ configured /\ ~loose

(* Unless SetApMode has been crossed, one task at a time switches the radio. *)
OneSwitch ==
  ~crossed => \A t, u \in Tasks : At(t) = "switch" /\ At(u) = "switch" => t = u

(* PortalKept while tasks are at work on the portal. *)
PortalOffered ==
  ~configured /\ ~crossed /\ ~deaf =>
    \/ \E t \in Tasks : Raises(call[t], goal[t])
    \/ ap /\ \A t \in Tasks : At(t) # "switch"

(* NeverLingers while tasks are at work on the portal. *)
PortalCloses == Lingering => ttl \/ closing \/ \E t \in Tasks : Lowers(call[t], goal[t])

WifiInv == WifiTypeOK /\ PhaseIsHonest /\ OneSwitch /\ PortalOffered /\ PortalCloses

-----------------------------------------------------------------------------
(* Steps of one task *)

(* A task moves: its call of SetApMode, its goal, or both. *)
Moves(t, c, g) ==
  call' = [call EXCEPT ![t] = c] /\ goal' = [goal EXCEPT ![t] = g]

(* What a task that moves leaves to the others. *)
LEMMA MoveIsLocal ==
  ASSUME WifiTypeOK, NEW t \in Tasks, NEW c \in Calls, NEW g \in Goals, Moves(t, c, g)
  PROVE  /\ call' \in [Tasks -> Calls] /\ goal' \in [Tasks -> Goals]
         /\ call'[t] = c /\ goal'[t] = g
         /\ \A u \in Tasks \ {t} : call'[u] = call[u] /\ goal'[u] = goal[u]
BY DEF WifiTypeOK, ApTypeOK, Calls, Moves

(* A move that does not come to the switch keeps the switches apart, and a   *)
(* raise that is coming.                                                     *)
LEMMA MoveOffers ==
  ASSUME WifiInv, NEW t \in Tasks, NEW c \in Calls, NEW g \in Goals, Moves(t, c, g),
         c = call[t] \/ c.at # "switch",
         UNCHANGED <<ap, crossed, deaf>>,
         Raises(call[t], goal[t]) => Raises(c, g),
         ~configured' => ~configured \/ g = "reset"
  PROVE  OneSwitch' /\ PortalOffered'
<1>1. /\ call'[t] = c /\ goal'[t] = g
      /\ \A u \in Tasks \ {t} : call'[u] = call[u] /\ goal'[u] = goal[u]
  BY MoveIsLocal DEF WifiInv
<1>2. \A u \in Tasks : At(u)' = "switch" => At(u) = "switch"
  BY <1>1 DEF At
<1>3. OneSwitch'
  BY <1>2 DEF WifiInv, OneSwitch
<1>4. \A u \in Tasks : Raises(call[u], goal[u]) => Raises(call'[u], goal'[u])
  BY <1>1
<1>5. g = "reset" => Raises(call'[t], goal'[t])
  BY <1>1 DEF Raises
<1>6. PortalOffered'
  BY <1>2, <1>4, <1>5 DEF WifiInv, PortalOffered
<1>. QED BY <1>3, <1>6

(* A portal that may linger after the move is about to be closed, by the     *)
(* task itself or by whoever was about to close it before.                   *)
LEMMA MoveCloses ==
  ASSUME WifiInv, NEW t \in Tasks, NEW c \in Calls, NEW g \in Goals, Moves(t, c, g),
         \/ Lingering' => ttl' \/ closing' \/ Lowers(c, g)
         \/ /\ Lingering' => Lingering
            /\ ttl => ttl'
            /\ closing => closing'
            /\ Lowers(call[t], goal[t]) => Lowers(c, g)
  PROVE  PortalCloses'
<1>1. /\ call'[t] = c /\ goal'[t] = g
      /\ \A u \in Tasks \ {t} : call'[u] = call[u] /\ goal'[u] = goal[u]
  BY MoveIsLocal DEF WifiInv
<1>. QED BY <1>1 DEF WifiInv, PortalCloses

(* A task that asks moves its call to the decision. *)
LEMMA AskMoves ==
  ASSUME NEW t \in Tasks, NEW want \in Wants, NEW g \in Goals, Ask(t, want), Pursue(t, g)
  PROVE  [at |-> "decide", want |-> want] \in Calls /\ Moves(t, [at |-> "decide", want |-> want], g)
BY DEF Ask, Pursue, Moves, Calls, Places

(* A task that returns moves its call outside. *)
LEMMA ReturnMoves ==
  ASSUME NEW t \in Tasks, NEW g \in Goals, Return(t), Pursue(t, g)
  PROVE  Outside \in Calls /\ Moves(t, Outside, g) /\ Outside.at = "out"
BY DEF Return, Pursue, Moves, Calls, Places, Outside, Wants

(* A task that does nothing moves nowhere. *)
LEMMA StayMoves ==
  ASSUME WifiTypeOK, NEW t \in Tasks, UNCHANGED <<call, goal>>
  PROVE  call[t] \in Calls /\ goal[t] \in Goals /\ Moves(t, call[t], goal[t])
BY DEF WifiTypeOK, ApTypeOK, Calls, Moves

(* A task may change its goal and leave its call alone. *)
LEMMA PursueMoves ==
  ASSUME WifiTypeOK, NEW t \in Tasks, NEW g \in Goals, UNCHANGED call, Pursue(t, g)
  PROVE  call[t] \in Calls /\ Moves(t, call[t], g)
BY DEF WifiTypeOK, ApTypeOK, Calls, Pursue, Moves

-----------------------------------------------------------------------------
(* The station *)

EventQueue(q) == q \in Seq({"disconnected", "got_ip"}) /\ Len(q) <= MaxEvents

(* An event joins the queue while there is room, and is taken from its head. *)
LEMMA QueueKept ==
  ASSUME EventQueue(events)
  PROVE  /\ \A e \in {"disconnected", "got_ip"} :
              Len(events) < MaxEvents => EventQueue(Append(events, e))
         /\ events # <<>> => EventQueue(Tail(events))
<1> DEFINE S == {"disconnected", "got_ip"}
<1>1. events \in Seq(S) /\ Len(events) <= MaxEvents /\ MaxEvents \in Nat
  BY EventsAssumption DEF EventQueue
<1>2. \A e \in S : Append(events, e) \in Seq(S) /\ Len(Append(events, e)) = Len(events) + 1
  BY <1>1
<1>3. events # <<>> => Tail(events) \in Seq(S) /\ Len(Tail(events)) = Len(events) - 1
  BY <1>1
<1>4. Len(events) \in Nat
  BY <1>1
<1>. QED BY <1>1, <1>2, <1>3, <1>4 DEF EventQueue

(* The radio and the reconnect timer touch nothing the portal is about. *)
LEMMA StationInv ==
  ASSUME WifiInv, LinkUp \/ LinkDown \/ ReconnectTimerFired
  PROVE  WifiInv'
<1> USE DEF apVars, stationVars, portalVars, historyVars
<1>1. UNCHANGED <<apVars, goal, stationVars, portalVars, historyVars>>
  BY DEF LinkUp, LinkDown, ReconnectTimerFired, StationOnly
<1>2. WifiTypeOK'
  <2>1. link' \in {"down", "trying", "up"} /\ retry' \in BOOLEAN
    BY DEF LinkUp, LinkDown, ReconnectTimerFired, WifiInv, WifiTypeOK
  <2>2. EventQueue(events')
    BY QueueKept
       DEF LinkUp, LinkDown, ReconnectTimerFired, EventQueue, WifiInv, WifiTypeOK
  <2>. QED BY <1>1, <2>1, <2>2 DEF WifiInv, WifiTypeOK, ApTypeOK, EventQueue
<1>3. (PhaseIsHonest /\ OneSwitch /\ PortalOffered /\ PortalCloses)'
  BY <1>1 DEF WifiInv, PhaseIsHonest, OneSwitch, PortalOffered, PortalCloses, Lingering, At
<1>. QED BY <1>2, <1>3 DEF WifiInv

(* The handler of a lost connection asks for the portal, or arms the timer. *)
LEMMA DisconnectedInv ==
  ASSUME WifiInv, Disconnected
  PROVE  WifiInv'
<1> USE DEF portalVars, historyVars
<1>1. /\ "sys" \in Tasks /\ Free("sys") /\ connected' = FALSE
      /\ UNCHANGED <<configured, ap, link, portalVars, historyVars>>
  BY WifiTasks DEF Disconnected
<1>2. PICK c \in Calls, g \in Goals :
        /\ Moves("sys", c, g)
        /\ (c = call["sys"] /\ g = goal["sys"]) \/ c.at = "decide"
  <2>1. CASE Ask("sys", "raise") /\ Pursue("sys", "reconnect")
    BY <1>1, <2>1, AskMoves DEF Wants, Goals
  <2>2. CASE UNCHANGED <<call, goal>>
    BY <1>1, <2>2, StayMoves DEF WifiInv
  <2>. QED BY <2>1, <2>2 DEF Disconnected
<1>3. phase' \in {"provisioning", "connecting"} /\ retry' \in BOOLEAN
  BY DEF Disconnected, WifiInv, WifiTypeOK
<1>4. failures' \in 0 .. FailuresBeforePortal
  BY FailuresAssumption DEF Disconnected, AtMost, WifiInv, WifiTypeOK
<1>5. EventQueue(events')
  BY QueueKept DEF Disconnected, EventQueue, WifiInv, WifiTypeOK
<1>6. WifiTypeOK'
  BY <1>1, <1>2, <1>3, <1>4, <1>5, MoveIsLocal
     DEF WifiInv, WifiTypeOK, ApTypeOK, Calls, EventQueue
<1>7. PhaseIsHonest'
  BY <1>3 DEF PhaseIsHonest
<1>8. OneSwitch' /\ PortalOffered'
  BY <1>1, <1>2, MoveOffers DEF Raises
<1>9. PortalCloses'
  BY <1>1, <1>2, MoveCloses DEF Lingering
<1>. QED BY <1>6, <1>7, <1>8, <1>9 DEF WifiInv

(* The handler of a won connection keeps the portal, or asks for its end. *)
LEMMA GotIpInv ==
  ASSUME WifiInv, GotIp
  PROVE  WifiInv'
<1> USE DEF historyVars
<1>1. /\ "sys" \in Tasks /\ Free("sys") /\ connected' = TRUE /\ failures' = 0
      /\ UNCHANGED <<configured, ap, link, retry, closing, historyVars>>
  BY WifiTasks DEF GotIp
<1>2. PICK c \in Calls, g \in Goals :
        /\ Moves("sys", c, g)
        /\ \/ c = call["sys"] /\ g = goal["sys"]
           \/ c = [at |-> "decide", want |-> "lower"]
        /\ Lingering' => ttl' \/ Lowers(c, g)
  <2>1. CASE (hold \/ ~configured) \/ ~ap
    <3>1. UNCHANGED <<call, goal>>
      BY <2>1 DEF GotIp
    <3>2. hold \/ ~configured => ttl' = ap
      BY DEF GotIp, Scheduled, WifiInv, WifiTypeOK, ApTypeOK
    <3>3. Lingering' => ttl'
      BY <1>1, <2>1, <3>2 DEF Lingering
    <3>. QED BY <1>1, <3>1, <3>3, StayMoves DEF WifiInv
  <2>2. CASE ~(hold \/ ~configured) /\ ap
    <3>1. Ask("sys", "lower") /\ Pursue("sys", "online")
      BY <2>2 DEF GotIp
    <3>. QED BY <1>1, <3>1, AskMoves DEF Wants, Goals, Lowers
  <2>. QED BY <2>1, <2>2
<1>3. phase' \in {"provisioning", "connected"} /\ hold' \in BOOLEAN /\ ttl' \in BOOLEAN
  BY DEF GotIp, Scheduled, WifiInv, WifiTypeOK, ApTypeOK
<1>4. EventQueue(events')
  BY QueueKept DEF GotIp, EventQueue, WifiInv, WifiTypeOK
<1>5. WifiTypeOK'
  BY <1>1, <1>2, <1>3, <1>4, FailuresAssumption, MoveIsLocal
     DEF WifiInv, WifiTypeOK, ApTypeOK, Calls, EventQueue
<1>6. PhaseIsHonest'
  BY <1>1 DEF PhaseIsHonest
<1>7. OneSwitch' /\ PortalOffered'
  BY <1>1, <1>2, MoveOffers DEF Raises
<1>8. PortalCloses'
  BY <1>1, <1>2, MoveCloses
<1>. QED BY <1>5, <1>6, <1>7, <1>8 DEF WifiInv

(* The event task is done with SetApMode. *)
LEMMA EventEndsInv ==
  ASSUME WifiInv, EventEnds
  PROVE  WifiInv'
<1> USE DEF stationVars, portalVars, historyVars
<1>1. /\ "sys" \in Tasks /\ goal["sys"] \in {"online", "reconnect"}
      /\ At("sys") \in {"ok", "failed"} /\ retry' \in BOOLEAN
      /\ UNCHANGED <<configured, ap, link, events, stationVars, portalVars, historyVars>>
  BY WifiTasks DEF EventEnds, Return, WifiInv, WifiTypeOK
<1>2. Outside \in Calls /\ "none" \in Goals /\ Moves("sys", Outside, "none")
      /\ Outside.at = "out"
  BY <1>1, ReturnMoves DEF EventEnds, Goals
<1>3. WifiTypeOK'
  BY <1>1, <1>2, MoveIsLocal DEF WifiInv, WifiTypeOK, ApTypeOK, Calls
<1>4. PhaseIsHonest'
  BY <1>1 DEF WifiInv, PhaseIsHonest
<1>5. OneSwitch' /\ PortalOffered'
  BY <1>1, <1>2, MoveOffers DEF Raises, At
<1>6. ~Lowers(call["sys"], goal["sys"])
  BY <1>1 DEF Lowers, At
<1>7. PortalCloses'
  BY <1>1, <1>2, <1>6, MoveCloses DEF Lingering
<1>. QED BY <1>3, <1>4, <1>5, <1>7 DEF WifiInv

-----------------------------------------------------------------------------
(* Steps that change only the portal's variables and their task *)

(* Such a step has to say how the portal is kept and how it is closed. *)
LEMMA PortalStepInv ==
  ASSUME WifiInv, NEW t \in Tasks, NEW c \in Calls, NEW g \in Goals, Moves(t, c, g),
         PortalOnly, UNCHANGED ap, configured' \in BOOLEAN,
         hold' \in BOOLEAN, ttl' \in BOOLEAN, closing' \in BOOLEAN,
         c = call[t] \/ c.at = "decide",
         goal[t] = "reset" => Raises(c, g),
         ~configured' => ~configured \/ g = "reset",
         \/ Lingering' => ttl' \/ closing' \/ Lowers(c, g)
         \/ /\ Lingering' => Lingering
            /\ ttl => ttl'
            /\ closing => closing'
            /\ Lowers(call[t], goal[t]) => Lowers(c, g)
  PROVE  WifiInv'
<1> USE DEF PortalOnly, linkVars, stationVars, historyVars
<1>1. WifiTypeOK'
  BY MoveIsLocal DEF WifiInv, WifiTypeOK, ApTypeOK, Calls
<1>2. PhaseIsHonest'
  BY DEF WifiInv, PhaseIsHonest
<1>3. Raises(call[t], goal[t]) => Raises(c, g)
  BY DEF Raises
<1>4. OneSwitch' /\ PortalOffered'
  BY <1>3, MoveOffers
<1>5. PortalCloses'
  BY MoveCloses
<1>. QED BY <1>1, <1>2, <1>4, <1>5 DEF WifiInv

(* The timers of the portal pass the duty to close it on to their callbacks, *)
(* and these to SetApMode.                                                   *)
LEMMA TimersInv ==
  ASSUME WifiInv, TtlFires \/ PortalTtlFired \/ CloseFires \/ ClosePortalTimerFired
  PROVE  WifiInv'
<1>0. "timer" \in Tasks /\ WifiTypeOK
  BY WifiTasks DEF WifiInv
<1>1. CASE TtlFires
  <2>1. /\ call["timer"] \in Calls /\ "ttl" \in Goals
        /\ Moves("timer", call["timer"], "ttl")
    BY <1>0, <1>1, PursueMoves DEF TtlFires, TaskOnly, Goals
  <2>2. goal["timer"] = "none" /\ Lowers(call["timer"], "ttl")
    BY <1>1 DEF TtlFires, Free, Lowers
  <2>3. PortalOnly /\ ttl' = FALSE /\ UNCHANGED <<configured, ap, hold, closing>>
    BY <1>1 DEF TtlFires, TaskOnly
  <2>. QED BY <1>0, <2>1, <2>2, <2>3, PortalStepInv DEF WifiInv, WifiTypeOK, ApTypeOK
<1>2. CASE PortalTtlFired
  <2>1. /\ goal["timer"] = "ttl" /\ PortalOnly /\ hold' = FALSE
        /\ UNCHANGED <<configured, ap, ttl, closing>>
    BY <1>2 DEF PortalTtlFired
  <2>2. CASE Ask("timer", "lower") /\ Pursue("timer", "publish")
    <3>1. PICK c \in Calls : c = [at |-> "decide", want |-> "lower"] /\ Moves("timer", c, "publish")
      BY <1>0, <2>2, AskMoves DEF Wants, Goals
    <3>2. Lowers(c, "publish") /\ Raises(c, "publish")
      BY <3>1 DEF Lowers, Raises
    <3>. QED BY <1>0, <2>1, <3>1, <3>2, PortalStepInv DEF Goals, WifiInv, WifiTypeOK, ApTypeOK
  <2>3. CASE ~(ap /\ connected) /\ Pursue("timer", "none") /\ UNCHANGED call
    <3>1. call["timer"] \in Calls /\ "none" \in Goals /\ Moves("timer", call["timer"], "none")
      BY <1>0, <2>3, PursueMoves DEF Goals
    <3>2. ~Lingering'
      BY <2>1, <2>3 DEF Lingering, PortalOnly, stationVars
    <3>. QED BY <1>0, <2>1, <3>1, <3>2, PortalStepInv DEF WifiInv, WifiTypeOK, ApTypeOK
  <2>. QED BY <1>2, <2>2, <2>3 DEF PortalTtlFired
<1>3. CASE CloseFires
  <2>1. PICK g \in Goals : /\ g = (IF configured THEN "drop" ELSE "none")
                           /\ Moves("timer", call["timer"], g)
    BY <1>0, <1>3, PursueMoves DEF CloseFires, TaskOnly, Goals
  <2>2. /\ goal["timer"] = "none" /\ PortalOnly /\ closing' = FALSE
        /\ call["timer"] \in Calls /\ UNCHANGED <<configured, ap, hold, ttl>>
    BY <1>0, <1>3, PursueMoves DEF CloseFires, TaskOnly, Free, Goals
  <2>3. Lingering' => Lowers(call["timer"], g)
    BY <2>1, <2>2 DEF Lingering, Lowers
  <2>. QED BY <1>0, <2>1, <2>2, <2>3, PortalStepInv DEF WifiInv, WifiTypeOK, ApTypeOK
<1>4. CASE ClosePortalTimerFired
  <2>1. /\ goal["timer"] = "drop" /\ PortalOnly /\ hold' = FALSE /\ ttl' = FALSE
        /\ UNCHANGED <<configured, ap, closing>>
    BY <1>4 DEF ClosePortalTimerFired
  <2>2. PICK c \in Calls : c = [at |-> "decide", want |-> "lower"] /\ Moves("timer", c, "publish")
    BY <1>0, <1>4, AskMoves DEF ClosePortalTimerFired, Wants, Goals
  <2>3. Lowers(c, "publish")
    BY <2>2 DEF Lowers
  <2>. QED BY <1>0, <2>1, <2>2, <2>3, PortalStepInv DEF Goals, WifiInv, WifiTypeOK, ApTypeOK
<1>. QED BY <1>1, <1>2, <1>3, <1>4

(* Those who ask for the portal cancel its timers and raise it; those who    *)
(* dismiss it lower it.                                                      *)
LEMMA RequestsInv ==
  ASSUME WifiInv, NEW t \in Tasks,
         ForcePortal(t) \/ EnterSetupMode(t) \/ ClickWhilePortal(t) \/ DismissPortal(t)
  PROVE  WifiInv'
<1>0. WifiTypeOK
  BY DEF WifiInv
<1>1. CASE ForcePortal(t)
  <2>1. /\ PortalOnly /\ hold' = TRUE /\ closing' = FALSE
        /\ UNCHANGED <<configured, ap, ttl>>
    BY <1>1 DEF ForcePortal
  <2>2. PICK c \in Calls : c = [at |-> "decide", want |-> "raise"] /\ Moves(t, c, "force")
    BY <1>1, AskMoves DEF ForcePortal, Wants, Goals
  <2>3. Lowers(c, "force") /\ Raises(c, "force")
    BY <2>2 DEF Lowers, Raises
  <2>. QED BY <2>1, <2>2, <2>3, PortalStepInv DEF Goals, WifiInv, WifiTypeOK, ApTypeOK
<1>2. CASE EnterSetupMode(t)
  <2>1. /\ PortalOnly /\ goal[t] = "none" /\ configured' = FALSE
        /\ UNCHANGED <<ap, call, portalVars>>
    BY <1>2 DEF EnterSetupMode, Free
  <2>2. call[t] \in Calls /\ "reset" \in Goals /\ Moves(t, call[t], "reset")
    BY <1>0, <1>2, <2>1, PursueMoves DEF EnterSetupMode, Goals
  <2>3. ~Lingering'
    BY <2>1 DEF Lingering
  <2>. QED BY <2>1, <2>2, <2>3, PortalStepInv DEF portalVars, WifiInv, WifiTypeOK
<1>3. CASE ClickWhilePortal(t)
  <2>1. /\ PortalOnly /\ goal[t] = "none" /\ UNCHANGED <<configured, ap, call, portalVars>>
    BY <1>3 DEF ClickWhilePortal, TaskOnly, Free
  <2>2. call[t] \in Calls /\ "dismiss" \in Goals /\ Moves(t, call[t], "dismiss")
    BY <1>0, <1>3, <2>1, PursueMoves DEF ClickWhilePortal, Goals
  <2>3. (Lingering' => Lingering) /\ (Lowers(call[t], goal[t]) => Lowers(call[t], "dismiss"))
    BY <2>1 DEF Lingering, Lowers, PortalOnly, stationVars, historyVars
  <2>. QED BY <2>1, <2>2, <2>3, PortalStepInv
           DEF portalVars, WifiInv, WifiTypeOK, ApTypeOK
<1>4. CASE DismissPortal(t)
  <2>1. /\ goal[t] = "dismiss" /\ PortalOnly /\ UNCHANGED <<configured, ap>>
        /\ closing' = FALSE /\ hold' = FALSE /\ ttl' = FALSE
    BY <1>4 DEF DismissPortal
  <2>2. CASE Ask(t, "lower") /\ Pursue(t, "publish")
    <3>1. PICK c \in Calls : c = [at |-> "decide", want |-> "lower"] /\ Moves(t, c, "publish")
      BY <2>2, AskMoves DEF Wants, Goals
    <3>2. Lowers(c, "publish")
      BY <3>1 DEF Lowers
    <3>. QED BY <2>1, <3>1, <3>2, PortalStepInv DEF Goals, WifiInv, WifiTypeOK, ApTypeOK
  <2>3. CASE ~(ap /\ connected) /\ Pursue(t, "none") /\ UNCHANGED call
    <3>1. call[t] \in Calls /\ "none" \in Goals /\ Moves(t, call[t], "none")
      BY <1>0, <2>3, PursueMoves DEF Goals
    <3>2. ~Lingering'
      BY <2>1, <2>3 DEF Lingering, PortalOnly, stationVars
    <3>. QED BY <2>1, <3>1, <3>2, PortalStepInv DEF WifiInv, WifiTypeOK, ApTypeOK
  <2>. QED BY <1>4, <2>2, <2>3 DEF DismissPortal
<1>. QED BY <1>1, <1>2, <1>3, <1>4

(* The claim ends with the portal's close timer armed, or is refused. *)
LEMMA ClaimsInv ==
  ASSUME WifiInv, NEW t \in Tasks,
         ClaimRefused(t) \/ ClaimSaved(t) \/ ClosePortalAfterSetup(t)
  PROVE  WifiInv'
<1>0. WifiTypeOK
  BY DEF WifiInv
<1>1. CASE ClaimRefused(t)
  <2>1. /\ PortalOnly /\ goal[t] = "claim" /\ UNCHANGED <<configured, ap, call, portalVars>>
    BY <1>1 DEF ClaimRefused, TaskOnly
  <2>2. call[t] \in Calls /\ "none" \in Goals /\ Moves(t, call[t], "none")
    BY <1>0, <1>1, <2>1, PursueMoves DEF ClaimRefused, Goals
  <2>3. (Lingering' => Lingering) /\ (Lowers(call[t], goal[t]) => Lowers(call[t], "none"))
    BY <2>1 DEF Lingering, Lowers, PortalOnly, stationVars, historyVars
  <2>. QED BY <2>1, <2>2, <2>3, PortalStepInv
           DEF portalVars, WifiInv, WifiTypeOK, ApTypeOK
<1>2. CASE ClaimSaved(t)
  <2>1. /\ PortalOnly /\ goal[t] \in {"claim", "none"} /\ configured' = TRUE
        /\ UNCHANGED <<ap, call, portalVars>>
    BY <1>2 DEF ClaimSaved, Free
  <2>2. call[t] \in Calls /\ "claimed" \in Goals /\ Moves(t, call[t], "claimed")
    BY <1>0, <1>2, <2>1, PursueMoves DEF ClaimSaved, Goals
  <2>3. Lowers(call[t], "claimed")
    BY DEF Lowers
  <2>. QED BY <2>1, <2>2, <2>3, PortalStepInv DEF portalVars, WifiInv, WifiTypeOK
<1>3. CASE ClosePortalAfterSetup(t)
  <2>1. /\ PortalOnly /\ goal[t] = "claimed" /\ UNCHANGED <<configured, ap, call>>
        /\ hold' = FALSE /\ ttl' = FALSE /\ closing' = TRUE
    BY <1>3 DEF ClosePortalAfterSetup, TaskOnly
  <2>2. call[t] \in Calls /\ "none" \in Goals /\ Moves(t, call[t], "none")
    BY <1>0, <1>3, <2>1, PursueMoves DEF ClosePortalAfterSetup, Goals
  <2>. QED BY <2>1, <2>2, PortalStepInv DEF WifiInv, WifiTypeOK, ApTypeOK
<1>. QED BY <1>1, <1>2, <1>3

-----------------------------------------------------------------------------
(* New credentials *)

(* Saved credentials take the station down before anything else.            *)
LEMMA CredentialsInv ==
  ASSUME WifiInv, NEW t \in Tasks, ApplyCredentials(t)
  PROVE  WifiInv'
<1> USE DEF portalVars, historyVars
<1>1. /\ goal[t] = "none" /\ connected' = FALSE /\ failures' = 0 /\ phase' = "connecting"
      /\ link' = "trying" /\ UNCHANGED <<configured, ap, call, retry, portalVars, historyVars>>
  BY DEF ApplyCredentials, Free, TaskOnly
<1>2. PICK g \in Goals : call[t] \in Calls /\ Moves(t, call[t], g)
  <2>1. PICK g \in Goals : Pursue(t, g)
    BY DEF ApplyCredentials, Goals
  <2>. QED BY <1>1, <2>1, PursueMoves DEF WifiInv
<1>3. EventQueue(events')
  BY QueueKept DEF ApplyCredentials, EventQueue, WifiInv, WifiTypeOK
<1>4. WifiTypeOK'
  <2>1. failures' \in 0 .. FailuresBeforePortal
    BY <1>1, FailuresAssumption
  <2>2. call' \in [Tasks -> Calls] /\ goal' \in [Tasks -> Goals]
    BY <1>2, MoveIsLocal DEF WifiInv
  <2>. QED BY <1>1, <1>3, <2>1, <2>2 DEF WifiInv, WifiTypeOK, ApTypeOK, Calls, EventQueue
<1>5. PhaseIsHonest'
  BY <1>1 DEF PhaseIsHonest
<1>6. OneSwitch' /\ PortalOffered'
  BY <1>1, <1>2, MoveOffers DEF Raises
<1>7. PortalCloses'
  BY <1>1, <1>2, MoveCloses DEF Lingering
<1>. QED BY <1>4, <1>5, <1>6, <1>7 DEF WifiInv

(* A portal released while the station is still online counts as loose.      *)
LEMMA ReleaseInv ==
  ASSUME WifiInv, NEW t \in Tasks, ReleasePortalHold(t)
  PROVE  WifiInv'
<1> USE DEF linkVars, stationVars
<1>1. /\ goal[t] = "release" /\ hold' = FALSE /\ ttl' = FALSE
      /\ UNCHANGED <<configured, ap, call, linkVars, stationVars, closing, deaf, crossed>>
  BY DEF ReleasePortalHold, TaskOnly
<1>2. call[t] \in Calls /\ "none" \in Goals /\ Moves(t, call[t], "none")
  BY <1>1, PursueMoves DEF ReleasePortalHold, WifiInv, Goals
<1>3. loose' \in BOOLEAN /\ ~Lingering'
  BY <1>1 DEF ReleasePortalHold, Lingering, WifiInv, WifiTypeOK, ApTypeOK
<1>4. WifiTypeOK'
  BY <1>1, <1>2, <1>3, MoveIsLocal DEF WifiInv, WifiTypeOK, ApTypeOK, Calls
<1>5. PhaseIsHonest'
  BY <1>1 DEF WifiInv, PhaseIsHonest
<1>6. OneSwitch' /\ PortalOffered'
  BY <1>1, <1>2, MoveOffers DEF Raises
<1>7. PortalCloses'
  BY <1>2, <1>3, MoveCloses
<1>. QED BY <1>4, <1>5, <1>6, <1>7 DEF WifiInv

-----------------------------------------------------------------------------
(* SetApMode returns to its caller *)

(* ForcePortal and those who closed the portal publish the phase.            *)
LEMMA ReturnsInv ==
  ASSUME WifiInv, NEW t \in Tasks, ForcePortalEnds(t) \/ PublishConnected(t)
  PROVE  WifiInv'
<1> USE DEF linkVars, historyVars
<1>1. /\ goal[t] \in {"force", "publish"} /\ At(t) \in {"ok", "failed"}
      /\ UNCHANGED <<configured, ap, connected, closing, linkVars, historyVars>>
  BY DEF ForcePortalEnds, PublishConnected, Return, portalVars
<1>2. Outside \in Calls /\ "none" \in Goals /\ Moves(t, Outside, "none")
      /\ Outside.at = "out"
  BY ReturnMoves DEF ForcePortalEnds, PublishConnected, Goals
<1>3. /\ hold' \in BOOLEAN /\ ttl' \in BOOLEAN
      /\ phase' \in {"connecting", "provisioning", "connected"}
  BY DEF ForcePortalEnds, PublishConnected, portalVars, Scheduled, WifiInv, WifiTypeOK, ApTypeOK
<1>4. failures' \in 0 .. FailuresBeforePortal
  BY FailuresAssumption DEF ForcePortalEnds, PublishConnected, WifiInv, WifiTypeOK
<1>5. WifiTypeOK'
  BY <1>1, <1>2, <1>3, <1>4, MoveIsLocal DEF WifiInv, WifiTypeOK, ApTypeOK, Calls
<1>6. PhaseIsHonest'
  BY <1>1 DEF ForcePortalEnds, PublishConnected, WifiInv, PhaseIsHonest
<1>7. OneSwitch' /\ PortalOffered'
  BY <1>1, <1>2, MoveOffers DEF Raises, At
<1>8. ~Lowers(call[t], goal[t]) /\ (Lingering' => Lingering)
  BY <1>1 DEF Lowers, At, Lingering
<1>9. PortalCloses'
  <2>1. ttl' = ttl \/ ttl' = Scheduled(ap, connected)
    BY DEF ForcePortalEnds, PublishConnected, portalVars
  <2>2. CASE ttl' = ttl
    BY <1>1, <1>2, <1>8, <2>2, MoveCloses
  <2>3. CASE ttl' = Scheduled(ap, connected)
    <3>1. Lingering' => ttl'
      BY <1>8, <2>3 DEF Lingering, Scheduled
    <3>. QED BY <1>2, <3>1, MoveCloses
  <2>. QED BY <2>1, <2>2, <2>3
<1>. QED BY <1>5, <1>6, <1>7, <1>9 DEF WifiInv

-----------------------------------------------------------------------------
(* SetApMode itself *)

(* To decide is to find the portal as it is wanted, or to go and switch.     *)
LEMMA DecideForInv ==
  ASSUME WifiInv, NEW t \in Tasks, DecideFor(t)
  PROVE  WifiInv'
<1> USE DEF linkVars, stationVars
<1>1. /\ call[t] \in Calls /\ goal[t] \in Goals /\ goal' = [goal EXCEPT ![t] = goal[t]]
      /\ configured \in BOOLEAN /\ ap \in BOOLEAN /\ ttl \in BOOLEAN
  BY DEF DecideFor, WifiInv, WifiTypeOK, ApTypeOK, Calls
<1>2. /\ At(t) = "decide" /\ crossed' = (crossed \/ \E u \in Tasks : At(u) = "switch")
      /\ UNCHANGED <<configured, ap, linkVars, stationVars, hold, closing, deaf, loose>>
  BY DEF DecideFor, Decide
<1>3. PICK c \in Calls :
        /\ Moves(t, c, goal[t]) /\ c.want = Wanted(t)
        /\ c.at = IF (Wanted(t) = "raise") = ap THEN "ok" ELSE "switch"
  <2>1. Wanted(t) \in Wants
    BY <1>1 DEF Wanted, Calls, Wants
  <2>2. PICK place \in {"ok", "switch"} :
          place = IF (Wanted(t) = "raise") = ap THEN "ok" ELSE "switch"
    OBVIOUS
  <2>3. call' = [call EXCEPT ![t] = [at |-> place, want |-> Wanted(t)]]
    BY <2>2 DEF DecideFor, Decide
  <2>4. [at |-> place, want |-> Wanted(t)] \in Calls
    BY <2>1 DEF Calls, Places
  <2>. QED BY <1>1, <2>2, <2>3, <2>4 DEF Moves
<1>4. /\ call' \in [Tasks -> Calls] /\ call'[t] = c /\ goal'[t] = goal[t]
      /\ \A u \in Tasks \ {t} : call'[u] = call[u] /\ goal'[u] = goal[u]
  BY <1>1, <1>3, MoveIsLocal DEF WifiInv
<1>5. ttl' = IF c.at = "ok" /\ c.want = "raise" /\ call[t].want = "raise"
             THEN Scheduled(ap, connected) ELSE ttl
  BY <1>4 DEF DecideFor, At
<1>6. crossed' \in BOOLEAN /\ ttl' \in BOOLEAN
  BY <1>1, <1>2, <1>5 DEF Scheduled, WifiInv, WifiTypeOK, ApTypeOK
<1>7. WifiTypeOK'
  BY <1>1, <1>2, <1>3, <1>4, <1>6, MoveIsLocal DEF WifiInv, WifiTypeOK, ApTypeOK, Calls
<1>8. PhaseIsHonest'
  BY <1>2 DEF WifiInv, PhaseIsHonest
<1>9. ~crossed' => ~crossed /\ \A u \in Tasks \ {t} : At(u)' # "switch"
  BY <1>2, <1>4 DEF At
<1>10. OneSwitch'
  BY <1>9 DEF OneSwitch
<1>11. PortalOffered'
  <2>1. SUFFICES ASSUME ~configured, ~crossed'
        PROVE  Raises(call'[t], goal'[t]) \/ (ap' /\ \A u \in Tasks : At(u)' # "switch")
    BY <1>2 DEF PortalOffered
  <2>2. c.want = "raise" /\ (c.at = IF ap THEN "ok" ELSE "switch")
    BY <1>1, <1>3, <2>1 DEF Wanted
  <2>. QED BY <1>2, <1>4, <1>9, <2>1, <2>2 DEF Raises, At
<1>12. PortalCloses'
  <2>1. CASE ~configured \/ ~ap
    <3>1. ~Lingering'
      BY <1>2, <2>1 DEF Lingering
    <3>. QED BY <1>1, <1>3, <3>1, MoveCloses
  <2>2. CASE configured /\ ap /\ call[t].want = "raise"
    <3>1. ttl' = (ap /\ connected)
      BY <1>3, <1>5, <2>2 DEF Wanted, Scheduled
    <3>2. Lingering' => ttl'
      BY <1>2, <3>1 DEF Lingering
    <3>. QED BY <1>1, <1>3, <3>2, MoveCloses
  <2>3. CASE configured /\ ap /\ call[t].want # "raise"
    <3>1. c.at = "switch" /\ c.want = call[t].want
      BY <1>3, <2>3 DEF Wanted
    <3>2. ttl' = ttl /\ (Lingering' => Lingering)
      BY <1>2, <1>5, <3>1 DEF Lingering
    <3>3. Lowers(call[t], goal[t]) => Lowers(c, goal[t])
      BY <1>1, <1>2, <2>3, <3>1 DEF Lowers, At, Calls, Wants
    <3>. QED BY <1>1, <1>2, <1>3, <3>2, <3>3, MoveCloses
  <2>. QED BY <1>1, <2>1, <2>2, <2>3
<1>. QED BY <1>7, <1>8, <1>10, <1>11, <1>12 DEF WifiInv

(* To switch is to change the radio and to arm the timer, or to fail.        *)
LEMMA SwitchForInv ==
  ASSUME WifiInv, NEW t \in Tasks, SwitchFor(t)
  PROVE  WifiInv'
<1> USE DEF linkVars, stationVars
<1>1. /\ call[t] \in Calls /\ goal[t] \in Goals /\ goal' = [goal EXCEPT ![t] = goal[t]]
      /\ configured \in BOOLEAN /\ ap \in BOOLEAN /\ ttl \in BOOLEAN /\ connected \in BOOLEAN
      /\ deaf \in BOOLEAN /\ loose \in BOOLEAN
  BY DEF SwitchFor, WifiInv, WifiTypeOK, ApTypeOK, Calls
<1>2. /\ At(t) = "switch" /\ call[t].at = "switch"
      /\ UNCHANGED <<configured, linkVars, stationVars, hold, closing, crossed>>
  BY DEF SwitchFor, SwitchMode, At
<1>3. PICK place \in {"ok", "failed"}, c \in Calls :
        /\ Moves(t, c, goal[t]) /\ c.at = place /\ c.want = call[t].want
        /\ place = "ok" => ap' = (call[t].want = "raise")
        /\ place = "failed" => ap' = ap
  <2>1. PICK place \in {"ok", "failed"} :
          /\ call' = [call EXCEPT ![t].at = place]
          /\ place = "ok" => ap' = (call[t].want = "raise")
          /\ place = "failed" => ap' = ap
    BY DEF SwitchFor, SwitchMode, GoTo
  <2>2. call' = [call EXCEPT ![t] = [call[t] EXCEPT !.at = place]]
    BY <2>1
  <2>3. /\ [call[t] EXCEPT !.at = place] \in Calls
        /\ [call[t] EXCEPT !.at = place].at = place
        /\ [call[t] EXCEPT !.at = place].want = call[t].want
    BY <1>1 DEF Calls, Places
  <2>. QED BY <1>1, <2>1, <2>2, <2>3 DEF Moves
<1>4. /\ call' \in [Tasks -> Calls] /\ call'[t] = c /\ goal'[t] = goal[t]
      /\ \A u \in Tasks \ {t} : call'[u] = call[u] /\ goal'[u] = goal[u]
  BY <1>1, <1>3, MoveIsLocal DEF WifiInv
<1>5. /\ ttl' = IF place = "ok" THEN Scheduled(ap', connected) ELSE ttl
      /\ deaf' = IF call[t].want = "raise" THEN place = "failed" ELSE deaf
      /\ loose' = (loose \/ (place = "failed" /\ call[t].want = "lower"))
  BY <1>3, <1>4 DEF SwitchFor, At
<1>6. ap' \in BOOLEAN /\ ttl' \in BOOLEAN /\ deaf' \in BOOLEAN /\ loose' \in BOOLEAN
  BY <1>1, <1>3, <1>5 DEF Scheduled
<1>7. WifiTypeOK'
  BY <1>1, <1>2, <1>3, <1>4, <1>6, MoveIsLocal DEF WifiInv, WifiTypeOK, ApTypeOK, Calls
<1>8. PhaseIsHonest'
  BY <1>2 DEF WifiInv, PhaseIsHonest
<1>9. \A u \in Tasks : At(u)' = "switch" => At(u) = "switch" /\ u # t
  BY <1>3, <1>4 DEF At
<1>10. OneSwitch'
  BY <1>2, <1>9 DEF WifiInv, OneSwitch
<1>11. PortalOffered'
  <2>1. SUFFICES ASSUME ~configured, ~crossed, ~deaf'
        PROVE  \/ \E u \in Tasks : Raises(call'[u], goal'[u])
               \/ ap' /\ \A u \in Tasks : At(u)' # "switch"
    BY <1>2 DEF PortalOffered
  <2>2. \A u \in Tasks : At(u)' # "switch"
    BY <1>2, <1>9, <2>1 DEF WifiInv, OneSwitch
  <2>3. CASE call[t].want = "raise"
    BY <1>3, <1>5, <2>1, <2>2, <2>3
  <2>4. CASE call[t].want # "raise"
    <3>1. PICK u \in Tasks : Raises(call[u], goal[u])
      BY <1>2, <1>5, <2>1, <2>4 DEF WifiInv, PortalOffered
    <3>2. Raises(call'[u], goal'[u])
      BY <1>2, <1>4, <2>4, <3>1 DEF Raises
    <3>. QED BY <3>2
  <2>. QED BY <2>3, <2>4
<1>12. PortalCloses'
  <2>1. CASE place = "ok"
    <3>1. ttl' = (ap' /\ connected)
      BY <1>5, <2>1 DEF Scheduled
    <3>2. Lingering' => ttl'
      BY <1>2, <3>1 DEF Lingering
    <3>. QED BY <1>1, <1>3, <3>2, MoveCloses
  <2>2. CASE place = "failed" /\ call[t].want = "lower"
    <3>1. ~Lingering'
      BY <1>5, <2>2 DEF Lingering
    <3>. QED BY <1>1, <1>3, <3>1, MoveCloses
  <2>3. CASE place = "failed" /\ call[t].want # "lower"
    <3>1. ttl' = ttl /\ (Lingering' => Lingering)
      BY <1>1, <1>2, <1>3, <1>5, <2>3 DEF Lingering
    <3>2. Lowers(call[t], goal[t]) => Lowers(c, goal[t])
      BY <1>2, <2>3 DEF Lowers
    <3>. QED BY <1>1, <1>2, <1>3, <3>1, <3>2, MoveCloses
  <2>. QED BY <2>1, <2>2, <2>3
<1>. QED BY <1>7, <1>8, <1>10, <1>11, <1>12 DEF WifiInv

-----------------------------------------------------------------------------
(* The invariant *)

(* The invariant holds at the start: a reader without a key starts its       *)
(* portal, and a provisioned one starts without.                             *)
LEMMA WifiInitInv == WifiInit => WifiInv
<1> SUFFICES ASSUME WifiInit PROVE WifiInv
  OBVIOUS
<1>1. /\ configured \in BOOLEAN /\ ap = ~configured /\ connected = FALSE
      /\ call = [t \in Tasks |-> Outside] /\ goal = [t \in Tasks |-> "none"]
      /\ Outside \in Calls /\ \A t \in Tasks : At(t) = "out"
  BY DEF WifiInit, ApInit, Outside, Calls, Places, Wants, At
<1>2. /\ link \in {"down", "trying", "up"} /\ phase \in {"provisioning", "connecting"}
      /\ failures \in 0 .. FailuresBeforePortal
      /\ events \in Seq({"disconnected", "got_ip"}) /\ Len(events) <= MaxEvents
  BY FailuresAssumption, EventsAssumption DEF WifiInit
<1>3. WifiTypeOK
  BY <1>1, <1>2 DEF WifiInit, WifiTypeOK, ApTypeOK, Calls, Goals
<1>4. PhaseIsHonest /\ OneSwitch /\ PortalOffered /\ PortalCloses
  BY <1>1, <1>2 DEF PhaseIsHonest, OneSwitch, PortalOffered, PortalCloses, Lingering
<1>. QED BY <1>3, <1>4 DEF WifiInv

(* Every step preserves the invariant. *)
LEMMA WifiNextInv == WifiInv /\ [WifiNext]_wifiVars => WifiInv'
<1> SUFFICES ASSUME WifiInv, [WifiNext]_wifiVars PROVE WifiInv'
  OBVIOUS
<1>1. CASE LinkUp \/ LinkDown \/ OnWifiEvent
  BY <1>1, StationInv, DisconnectedInv, GotIpInv, EventEndsInv DEF OnWifiEvent
<1>2. CASE TimerTask
  BY <1>2, StationInv, TimersInv DEF TimerTask
<1>3. ASSUME NEW t \in Tasks, SetApModeFor(t) \/ Caller(t) PROVE WifiInv'
  <2>1. CASE SetApModeFor(t)
    BY <2>1, DecideForInv, SwitchForInv, ReturnsInv DEF SetApModeFor
  <2>2. CASE Caller(t)
    BY <2>2, RequestsInv, ClaimsInv, CredentialsInv, ReleaseInv DEF Caller
  <2>. QED BY <1>3, <2>1, <2>2
<1>4. CASE UNCHANGED wifiVars
  <2> USE DEF wifiVars, apVars, linkVars, stationVars, portalVars, historyVars
  <2>1. WifiTypeOK'
    BY <1>4 DEF WifiInv, WifiTypeOK, ApTypeOK
  <2>2. (PhaseIsHonest /\ OneSwitch /\ PortalOffered /\ PortalCloses)'
    BY <1>4 DEF WifiInv, PhaseIsHonest, OneSwitch, PortalOffered, PortalCloses, Lingering, At
  <2>. QED BY <2>1, <2>2 DEF WifiInv
<1>. QED BY <1>1, <1>2, <1>3, <1>4 DEF WifiNext

(* The strengthened invariant of every reachable state.                      *)
THEOREM WifiInvariance == WifiSpec => []WifiInv
BY WifiInitInv, WifiNextInv, PTL DEF WifiSpec

(* Every variable of the station and its portal keeps its type, and the      *)
(* queue of Wi-Fi events its bound.                                          *)
THEOREM WifiTypeCorrect == WifiSpec => []WifiTypeOK
<1>1. WifiInv => WifiTypeOK
  BY DEF WifiInv
<1>. QED BY <1>1, WifiInvariance, PTL

(* wifi_manager.cpp:200-209: with no task at work on it, the portal of a     *)
(* reader without a key is up, unless the radio refused it or two calls of   *)
(* SetApMode overlapped.                                                     *)
THEOREM PortalIsKept == WifiSpec => []PortalKept
<1>1. WifiInv => PortalKept
  BY DEF WifiInv, PortalOffered, PortalKept, Settled, Free, Raises, At
<1>. QED BY <1>1, WifiInvariance, PTL

(* wifi_manager.cpp:33-36, 119-144: with no task at work on it, the portal   *)
(* of a provisioned reader that is online has a timer running against it.    *)
THEOREM PortalIsClosed == WifiSpec => []NeverLingers
<1>1. WifiInv => NeverLingers
  BY DEF WifiInv, PortalCloses, Lingering, NeverLingers, Settled, Free, Lowers, At
<1>. QED BY <1>1, WifiInvariance, PTL

(* wifi_manager.cpp:211-248: the published phase never claims a connection   *)
(* the station has lost.                                                     *)
THEOREM PhaseStaysHonest == WifiSpec => []PhaseIsHonest
<1>1. WifiInv => PhaseIsHonest
  BY DEF WifiInv
<1>. QED BY <1>1, WifiInvariance, PTL

=============================================================================
