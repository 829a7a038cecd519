------------------------ MODULE OperationModeProofs ------------------------
(***************************************************************************)
(* Proofs about OperationMode, for every limit on the age of a policy.     *)
(***************************************************************************)
EXTENDS OperationMode, TLAPS

(* A battery clock whose stop flag is clear, or is about to be cleared, has *)
(* the right time.                                                          *)
ChipVouches == ~chip.stopped \/ setting = "flag" => chip.time = "right"

(* A clock with a source is right. *)
ClockIsRight == clock.source # "none" => clock.time = "right"

IInv == TypeOK /\ ChipVouches /\ ClockIsRight

Sources == {"none", "rtc", "network"}
Stops == {"idle", "ask", "answer", "set", "save"}

-----------------------------------------------------------------------------

(* The ages that occur, and what the passing of time makes of them. *)
LEMMA AgeFacts ==
  /\ 0 \in Ages /\ Never \in Ages
  /\ Older(Never) = Never
  /\ \A age \in Ages : Older(age) \in Ages
BY StaleAssumption DEF Ages, Never, Older

(* What a battery clock is taken to say at boot, and that it is right when  *)
(* its stop flag is.                                                        *)
LEMMA ReadingFacts ==
  ASSUME chip \in [time : Times, stopped : BOOLEAN],
         ~chip.stopped => chip.time = "right",
         NEW seen \in BOOLEAN
  PROVE  /\ Reading(seen) \in [source : Sources, time : Times]
         /\ Reading(seen).source # "none" => Reading(seen).time = "right"
BY DEF Reading, Times, Sources

(* The records of the tasks stay typed when one of them moves on. *)
LEMMA SyncMoves ==
  ASSUME TypeOK, NEW t \in Syncers, NEW place \in Stops \ {"idle", "ask"}, Goto(t, place)
  PROVE  /\ sync' \in [Syncers -> [at : Stops, age : Ages]]
         /\ \A u \in Syncers : sync'[u].at \in {"idle", "ask"} => sync'[u].age = Never
BY DEF TypeOK, Goto, At, Stops

(* A sync that stops keeps the type of the syncs. *)
LEMMA SyncStops ==
  ASSUME TypeOK, NEW t \in Syncers, Stop(t)
  PROVE  /\ sync' \in [Syncers -> [at : Stops, age : Ages]]
         /\ \A u \in Syncers : sync'[u].at \in {"idle", "ask"} => sync'[u].age = Never
BY AgeFacts DEF TypeOK, Stop, At, Stops

-----------------------------------------------------------------------------
(* The invariant *)

(* The invariant holds at the start. *)
LEMMA InitInv == Init => IInv
<1> SUFFICES ASSUME Init PROVE IInv
  OBVIOUS
<1>1. chip \in [time : Times, stopped : BOOLEAN] /\ ChipVouches
  BY DEF Init, ChipVouches, Times
<1>2. clock \in [source : Sources, time : Times] /\ ClockIsRight
  <2>1. \A seen \in BOOLEAN :
          /\ Reading(seen) \in [source : Sources, time : Times]
          /\ Reading(seen).source # "none" => Reading(seen).time = "right"
    BY <1>1, ReadingFacts DEF ChipVouches
  <2>2. clock = Reading(FALSE) \/ clock = Reading(TRUE)
    BY DEF Init
  <2>. QED BY <2>1, <2>2 DEF ClockIsRight
<1>3. /\ sync \in [Syncers -> [at : Stops, age : Ages]]
      /\ \A t \in Syncers : sync[t].age = Never
  BY AgeFacts DEF Init, AllIdle, Stops
<1>. QED BY <1>1, <1>2, <1>3 DEF Init, IInv, TypeOK, At, Sources, Stops

(* SyncPolicy leaves the clocks alone, and types hold. *)
LEMMA SyncInv ==
  ASSUME IInv, NEW t \in Syncers, StartSync(t) \/ SyncPolicy(t)
  PROVE  IInv'
<1> USE DEF stateVars, policyVars, clockVars, outsideVars
<1>1. UNCHANGED clockVars
  BY DEF StartSync, SyncPolicy, Answered, Refused, Failed, Reached, SetPolicy,
         SavePolicySnapshot
<1>2. (ChipVouches /\ ClockIsRight)'
  BY <1>1 DEF IInv, ChipVouches, ClockIsRight
<1>3. sync[t] \in [at : Stops, age : Ages]
  BY DEF IInv, TypeOK, Stops
<1>4. CASE StartSync(t)
  <2>1. /\ sync' \in [Syncers -> [at : Stops, age : Ages]]
        /\ \A u \in Syncers : sync'[u].at \in {"idle", "ask"} => sync'[u].age = Never
    BY <1>4 DEF StartSync, Goto, IInv, TypeOK, At, Stops
  <2>. QED BY <1>2, <1>4, <2>1 DEF StartSync, IInv, TypeOK, At, Stops
<1>5. CASE Answered(t)
  <2>1. /\ sync' \in [Syncers -> [at : Stops, age : Ages]]
        /\ \A u \in Syncers : sync'[u].at \in {"idle", "ask"} => sync'[u].age = Never
    BY <1>5, AgeFacts DEF Answered, IInv, TypeOK, At, Stops
  <2>. QED BY <1>2, <1>5, <2>1 DEF Answered, IInv, TypeOK, At, Stops
<1>6. CASE Refused(t) \/ Failed(t)
  BY <1>2, <1>6, SyncStops DEF Refused, Failed, IInv, TypeOK, At, Stops
<1>7. CASE Reached(t)
  BY <1>2, <1>7, SyncMoves DEF Reached, IInv, TypeOK, At, Stops
<1>8. CASE SetPolicy(t)
  BY <1>2, <1>3, <1>8, SyncMoves DEF SetPolicy, IInv, TypeOK, At, Stops
<1>9. CASE SavePolicySnapshot(t)
  BY <1>2, <1>3, <1>9, SyncStops, AgeFacts
     DEF SavePolicySnapshot, IInv, TypeOK, At, Stops
<1>. QED BY <1>4, <1>5, <1>6, <1>7, <1>8, <1>9 DEF SyncPolicy

(* Only SNTP gives a running reader the time, and the stop flag of the       *)
(* battery clock is cleared only after its time was written.                 *)
LEMMA ClockInv ==
  ASSUME IInv, StationUp \/ OnSntpSync \/ WriteTime
  PROVE  IInv'
<1> USE DEF stateVars, policyVars, clockVars, outsideVars, ClockOnly
<1>1. CASE StationUp
  BY <1>1 DEF StationUp, IInv, TypeOK, ChipVouches, ClockIsRight, At
<1>2. CASE OnSntpSync
  BY <1>2 DEF OnSntpSync, IInv, TypeOK, ChipVouches, ClockIsRight, At, Times
<1>3. CASE WriteTime
  <2>1. chip' \in [time : Times, stopped : BOOLEAN] /\ setting' \in {"idle", "time", "flag"}
    BY <1>3 DEF WriteTime, IInv, TypeOK, Times
  <2>2. ChipVouches'
    BY <1>3 DEF WriteTime, IInv, TypeOK, ChipVouches, Times
  <2>3. UNCHANGED <<stateVars, policyVars, clock, present, sntp, sync, outsideVars>>
    BY <1>3 DEF WriteTime
  <2>. QED BY <2>1, <2>2, <2>3 DEF IInv, TypeOK, ClockIsRight, At
<1>. QED BY <1>1, <1>2, <1>3

(* The policy ages; the clocks of the reader and of the cell keep time. *)
LEMMA TickInv ==
  ASSUME IInv, Tick
  PROVE  IInv'
<1> USE DEF stateVars, policyVars, clockVars, outsideVars
<1>1. /\ sync' \in [Syncers -> [at : Stops, age : Ages]]
      /\ \A u \in Syncers : sync'[u].at \in {"idle", "ask"} => sync'[u].age = Never
  BY AgeFacts DEF Tick, IInv, TypeOK, At, Stops
<1>. QED BY <1>1, AgeFacts DEF Tick, IInv, TypeOK, ChipVouches, ClockIsRight, At, Stops

(* A reader that boots takes its time from a battery clock that vouches for *)
(* it, or has none.                                                          *)
LEMMA BootInv ==
  ASSUME IInv, Boot
  PROVE  IInv'
<1>1. chip' \in [time : Times, stopped : BOOLEAN] /\ ChipVouches'
  BY DEF Boot, IInv, TypeOK, ChipVouches, Times
<1>2. clock' \in [source : Sources, time : Times] /\ ClockIsRight'
  <2>1. /\ chip'.stopped \in BOOLEAN /\ chip'.time \in Times
        /\ ~chip'.stopped => chip'.time = "right"
    BY <1>1 DEF ChipVouches
  <2>2. \/ clock' = [source |-> "none", time |-> "unset"]
        \/ ~chip'.stopped /\ clock' = [source |-> "rtc", time |-> chip'.time]
    BY DEF Boot, Reading
  <2>. QED BY <2>1, <2>2 DEF ClockIsRight, Sources, Times
<1>3. /\ sync' \in [Syncers -> [at : Stops, age : Ages]]
      /\ \A t \in Syncers : sync'[t].age = Never
  BY AgeFacts DEF Boot, AllIdle, Stops
<1>. QED BY <1>1, <1>2, <1>3 DEF Boot, IInv, TypeOK, At, Sources, Stops

(* Every step preserves the invariant. *)
LEMMA NextInv == IInv /\ [Next]_vars => IInv'
<1> SUFFICES ASSUME IInv, [Next]_vars PROVE IInv'
  OBVIOUS
<1> USE DEF stateVars, policyVars, clockVars, outsideVars
<1>1. CASE \E t \in Syncers : StartSync(t) \/ SyncPolicy(t)
  BY <1>1, SyncInv
<1>2. CASE StationUp \/ OnSntpSync \/ WriteTime
  BY <1>2, ClockInv
<1>3. CASE StationDown \/ IdentityComesOrGoes \/ Claim
  BY <1>3 DEF StationDown, IdentityComesOrGoes, Claim, IInv, TypeOK, ChipVouches,
              ClockIsRight, At
<1>4. CASE Tick \/ Boot
  BY <1>4, TickInv, BootInv
<1>5. CASE UNCHANGED vars
  BY <1>5 DEF vars, IInv, TypeOK, ChipVouches, ClockIsRight, At
<1>. QED BY <1>1, <1>2, <1>3, <1>4, <1>5 DEF Next

(* The strengthened invariant of every reachable state. *)
THEOREM Invariance == Spec => []IInv
BY InitInv, NextInv, PTL DEF Spec

(* Every variable keeps its type, and no answer outlives its sync. *)
THEOREM TypeCorrect == Spec => []TypeOK
<1>1. IInv => TypeOK
  BY DEF IInv
<1>. QED BY <1>1, Invariance, PTL

(* clock.hpp:4-13: whatever clocks stop, cells die and writes are cut short, *)
(* a reader that decides on its own knows the time, and its policy is not    *)
(* older than the limit.                                                     *)
THEOREM TimelyOffline == Spec => []OfflineIsTimely
<1>1. IInv => OfflineIsTimely
  <2> SUFFICES ASSUME IInv, OperationMode = "CONTINGENCY"
               PROVE  clock.time = "right" /\ policy <= MaxStale
    BY DEF OfflineIsTimely
  <2>1. Trusted /\ PolicyIsFresh
    BY DEF OperationMode
  <2>2. clock.time = "right"
    BY <2>1 DEF Trusted, IInv, ClockIsRight
  <2>. QED BY <2>1, <2>2 DEF PolicyIsFresh
<1>. QED BY <1>1, Invariance, PTL

=============================================================================
