-------------------------- MODULE MCMessageHistory --------------------------
(* Ids are shared by the rooms, and there are more clock values than       *)
(* max_age, so records expire, rooms run empty and numbering restarts.     *)
EXTENDS MessageHistory, TLC

Symmetry == Permutations(Rooms) \cup Permutations(Ids)
=============================================================================
