--------------------------- MODULE MCRoomSessions ---------------------------
(* One user of Users with two sessions and another user with one already   *)
(* give every kind of overlap; threads, users and sids are interchangeable.*)
EXTENDS RoomSessions, TLC

Symmetry == Permutations(Threads) \cup Permutations(Users) \cup Permutations(Sids)
              \cup Permutations(Rooms)
=============================================================================
