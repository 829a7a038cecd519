----------------------------- MODULE TicketUse -----------------------------
(***************************************************************************)
(* What the consumed-intent store promises the door, whatever number of    *)
(* tasks scan at once: a scan is admitted only while its ticket is fresh,  *)
(* it may open the door only once the ticket's consumption was noted, and  *)
(* it opens it once.  A ticket that was consumed admits nobody any more,   *)
(* so no task opens the door with it twice.  The promise ends for a ticket *)
(* that the store forgot together with its document.                       *)
(***************************************************************************)
CONSTANTS Intents, Tasks
VARIABLE ticket   \* what became of each intent's ticket

(* Who may still open the door with a ticket, and who has. *)
Tickets == [state : {"fresh", "consumed", "forgotten"},
            admitted : SUBSET Tasks, opened : SUBSET Tasks]

Fresh == [state |-> "fresh", admitted |-> {}, opened |-> {}]
Forgotten == [Fresh EXCEPT !.state = "forgotten"]

Init == ticket = [i \in Intents |-> Fresh]

Admit(i, t) ==
  /\ ticket[i].state = "fresh" /\ t \notin ticket[i].admitted
  /\ ticket' = [ticket EXCEPT ![i].admitted = @ \cup {t}]

(* The task that notes the consumption goes on, or gives up. *)
Consume(i, t) ==
  /\ ticket[i].state = "fresh" /\ t \in ticket[i].admitted
  /\ \E left \in {{}, {t}} :
       ticket' = [ticket EXCEPT ![i] =
         [state |-> "consumed", admitted |-> @.admitted \ left, opened |-> @.opened]]

Refuse(i, t) ==
  /\ t \in ticket[i].admitted
  /\ ticket' = [ticket EXCEPT ![i].admitted = @ \ {t}]

Open(i, t) ==
  /\ ticket[i].state = "consumed"
  /\ t \in ticket[i].admitted /\ t \notin ticket[i].opened
  /\ ticket' = [ticket EXCEPT ![i] =
       [state |-> "consumed", admitted |-> @.admitted \ {t}, opened |-> @.opened \cup {t}]]

(* A restart ends every scan, and forgets consumptions that opened nothing. *)
Restart(S) ==
  /\ \A i \in S : ticket[i].state = "consumed" /\ ticket[i].opened = {}
  /\ ticket' = [i \in Intents |->
       IF i \in S THEN Fresh ELSE [ticket[i] EXCEPT !.admitted = {}]]

(* The store's document was lost with everything it remembered. *)
Forget(S) ==
  /\ \A i \in S : ticket[i].state = "consumed"
  /\ ticket' = [i \in Intents |->
       IF i \in S THEN Forgotten ELSE [ticket[i] EXCEPT !.admitted = {}]]

Next ==
  \/ \E i \in Intents, t \in Tasks : Admit(i, t) \/ Consume(i, t) \/ Refuse(i, t) \/ Open(i, t)
  \/ \E S \in SUBSET Intents : Restart(S) \/ Forget(S)

Spec == Init /\ [][Next]_ticket

=============================================================================
