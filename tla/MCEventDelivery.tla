-------------------------- MODULE MCEventDelivery ---------------------------
(* Two events are enough for one that a reader has and one that it could   *)
(* miss, or for one that overtakes the other; three threads, for two sends *)
(* and a join at once.  An event with the id "None" is not like others.    *)
EXTENDS EventDelivery, TLC

Symmetry ==
  Permutations(Clients) \cup Permutations(Events \ {NamedNone}) \cup Permutations(Threads)

(* Bound of DeliveryConcurrent: its property is about clients that never   *)
(* resume, and as a sender one that resumes is like any other.             *)
NobodyResumes == resumed = {}
=============================================================================
