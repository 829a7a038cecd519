--------------------------- MODULE MCFrigateBridge ---------------------------
(* An access point whose mapping names no zone and keeps no sessions, and   *)
(* the interior of install/frigate/README.md, a zone with sessions.         *)
EXTENDS FrigateBridge

Hall == [zone |-> NoZone, debounced |-> FALSE]
Interior == [zone |-> "interior", debounced |-> TRUE]
Mapped == {Hall, Interior}

=============================================================================
