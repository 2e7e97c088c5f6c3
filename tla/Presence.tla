------------------------------ MODULE Presence ------------------------------
(***************************************************************************)
(* What the client registry promises its callers (the class docstring of   *)
(* registry.py): a user is online through at most one Socket.IO session,   *)
(* a newer session replaces the older one together with everything it had  *)
(* joined, and a session has exactly the rooms it entered and did not      *)
(* leave.  There is no second index, no status field and no memory of      *)
(* users that went offline.                                                *)
(***************************************************************************)
CONSTANTS Users, Sids, Rooms, NoSid

VARIABLE session    \* session[u]: the one session user u is online through

Session == [sid : Sids \cup {NoSid}, rooms : SUBSET Rooms]

Offline == [sid |-> NoSid, rooms |-> {}]

Online(s) == \E u \in Users : session[u].sid = s

TypeOK == session \in [Users -> Session]

Init == session = [u \in Users |-> Offline]

(* A new session begins with no rooms, whatever the replaced one had. *)
Open(u, s) ==
  /\ ~Online(s)
  /\ session' = [session EXCEPT ![u] = [sid |-> s, rooms |-> {}]]

Close(u) ==
  /\ session[u].sid # NoSid
  /\ session' = [session EXCEPT ![u] = Offline]

Enter(u, r) ==
  /\ session[u].sid # NoSid
  /\ session' = [session EXCEPT ![u].rooms = @ \cup {r}]

Leave(u, r) ==
  /\ session[u].sid # NoSid
  /\ session' = [session EXCEPT ![u].rooms = @ \ {r}]

(* Processor shutdown forgets everybody. *)
Reset == session' = [u \in Users |-> Offline]

Next ==
  \/ \E u \in Users, s \in Sids : Open(u, s)
  \/ \E u \in Users : Close(u)
  \/ \E u \in Users, r \in Rooms : Enter(u, r) \/ Leave(u, r)
  \/ Reset

Spec == Init /\ [][Next]_session
=============================================================================
