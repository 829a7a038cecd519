------------------------- MODULE MCOfflinePassage -------------------------
(* Instances of OfflinePassage for TLC. *)
EXTENDS OfflinePassage, TLC

(* Intents are interchangeable, and so are the tasks that scan them. *)
Symmetric == Permutations(Intents) \cup Permutations(Workers)
===========================================================================
