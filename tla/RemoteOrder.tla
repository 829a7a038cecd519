---------------------------- MODULE RemoteOrder ----------------------------
(***************************************************************************)
(* What a technician may count on who orders a command from Identity: the  *)
(* reader carries out one command at a time, tells of each the outcome it  *)
(* had, and once Identity was told never carries it out again.  A command  *)
(* whose answer was lost, or that a restart interrupted, is still ordered. *)
(***************************************************************************)
CONSTANT Commands

VARIABLES
  life,      \* how far each command is
  outcome,   \* the outcome of the command that was carried out last
  told       \* what Identity was told of each command

vars == <<life, outcome, told>>

Lives == {"none", "ordered", "taken", "carried", "answered"}
Outcomes == {"done", "failed"}

Busy == \E c \in Commands : life[c] = "carried"
Idle == \A c \in Commands : life[c] \notin {"taken", "carried"}

Init ==
  /\ life = [c \in Commands |-> "none"]
  /\ outcome = "none"
  /\ told = [c \in Commands |-> "none"]

Order(c) ==
  /\ life[c] = "none"
  /\ life' = [life EXCEPT ![c] = "ordered"]
  /\ UNCHANGED <<outcome, told>>

(* A reader that is done with what it took asks for more. *)
Take(S) ==
  /\ Idle /\ \A c \in S : life[c] = "ordered"
  /\ life' = [c \in Commands |-> IF c \in S THEN "taken" ELSE life[c]]
  /\ UNCHANGED <<outcome, told>>

CarryOut(c) ==
  /\ life[c] = "taken" /\ ~Busy
  /\ life' = [life EXCEPT ![c] = "carried"]
  /\ outcome' \in Outcomes
  /\ UNCHANGED told

Answer(c) ==
  /\ life[c] = "carried"
  /\ life' = [life EXCEPT ![c] = "answered"]
  /\ told' = [told EXCEPT ![c] = outcome]
  /\ outcome' = "none"

(* Identity did not hear the answer. *)
AnswerLost(c) ==
  /\ life[c] = "carried"
  /\ life' = [life EXCEPT ![c] = "ordered"]
  /\ outcome' = "none"
  /\ UNCHANGED told

Interrupted ==
  /\ life' = [c \in Commands |->
                IF life[c] \in {"taken", "carried"} THEN "ordered" ELSE life[c]]
  /\ outcome' = "none"
  /\ UNCHANGED told

Next ==
  \/ \E c \in Commands : Order(c) \/ CarryOut(c) \/ Answer(c) \/ AnswerLost(c)
  \/ \E S \in SUBSET Commands : Take(S)
  \/ Interrupted

Spec == Init /\ [][Next]_vars

=============================================================================
