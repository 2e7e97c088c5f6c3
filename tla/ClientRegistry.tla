--------------------------- MODULE ClientRegistry ---------------------------
(***************************************************************************)
(* registry.py: the in-memory registry of clients and rooms.  Every        *)
(* public method runs under the registry's own RLock, so each of them is   *)
(* one atomic action here.  The registry keeps two dictionaries that must  *)
(* agree: user id -> ClientState and sid -> user id.                       *)
(*                                                                         *)
(* Left out: the display name, which no decision of the registry reads,    *)
(* and the conversion of a user id to its dictionary key.                  *)
(***************************************************************************)
EXTENDS FiniteSets

CONSTANTS
  Users,      \* user ids
  Sids,       \* Socket.IO session ids
  Rooms,      \* room names
  NoSid,      \* None, as the sid of a client
  NoUser,     \* None, as the user a sid belongs to
  NoClient    \* None, as a client

ClientState ==
  [sid : Sids \cup {NoSid},
   status : {"Connected", "Disconnected"},
   rooms : SUBSET Rooms]

ASSUME NullValues ==
  /\ NoSid \notin Sids
  /\ NoUser \notin Users
  /\ NoClient \notin ClientState

VARIABLES
  users,        \* _users: the ClientState of every user ever seen
  sidToUser     \* _sid_to_user_id

regVars == <<users, sidToUser>>

Init ==
  /\ users = [u \in Users |-> NoClient]
  /\ sidToUser = [s \in Sids |-> NoUser]

-----------------------------------------------------------------------------
(* Queries *)

(* _client_for_sid_locked, and get_by_sid: both look up sid, then user. *)
ClientOf(s) == IF sidToUser[s] = NoUser THEN NoClient ELSE users[sidToUser[s]]

RoomsForSid(s) == IF ClientOf(s) = NoClient THEN {} ELSE ClientOf(s).rooms

IsInRoom(s, r) == r \in RoomsForSid(s)

IsConnected(u) == users[u] # NoClient /\ users[u].status = "Connected"

(* clients_for_room, as the set of the clients' user ids. *)
ClientsForRoom(r) == {u \in Users : IsConnected(u) /\ r \in users[u].rooms}

ActiveSids == {users[u].sid : u \in {v \in Users : IsConnected(v) /\ users[v].sid # NoSid}}

ConnectedCount == Cardinality({u \in Users : IsConnected(u) /\ users[u].sid # NoSid})

(* The value connect() returns: the sid the new session replaces. *)
OldSid(u) == IF users[u] = NoClient THEN NoSid ELSE users[u].sid

(* disconnect() acts only for the session the user is registered with. *)
Holds(s) ==
  /\ sidToUser[s] # NoUser
  /\ users[sidToUser[s]] # NoClient
  /\ users[sidToUser[s]].sid = s

-----------------------------------------------------------------------------
(* Operations *)

(* Mutant: the replaced sid stays in the index. *)
ConnectKeepsOldSid(u, s) ==
  /\ users' = [users EXCEPT ![u] = [sid |-> s, status |-> "Connected", rooms |-> {}]]
  /\ sidToUser' = [sidToUser EXCEPT ![s] = u]

(* Mutant: the existing ClientState is reused, with its rooms. *)
ConnectKeepsRooms(u, s) ==
  /\ users' = [users EXCEPT ![u] = [sid |-> s, status |-> "Connected",
                                    rooms |-> IF @ = NoClient THEN {} ELSE @.rooms]]
  /\ sidToUser' = [t \in Sids |-> IF t = s THEN u
                                  ELSE IF t = OldSid(u) THEN NoUser
                                  ELSE sidToUser[t]]

Connect(u, s) ==
  /\ users' = [users EXCEPT ![u] = [sid |-> s, status |-> "Connected", rooms |-> {}]]
  /\ sidToUser' = [t \in Sids |-> IF t = s THEN u
                                  ELSE IF t = OldSid(u) THEN NoUser
                                  ELSE sidToUser[t]]

(* Mutant: a status that none of the filters knows. *)
DisconnectOtherStatus(s) ==
  /\ sidToUser' = [sidToUser EXCEPT ![s] = NoUser]
  /\ \/ /\ Holds(s)
        /\ users' = [users EXCEPT ![sidToUser[s]] =
                       [sid |-> NoSid, status |-> "Offline", rooms |-> {}]]
     \/ ~Holds(s) /\ UNCHANGED users

(* Mutant: active_rooms is not cleared. *)
DisconnectKeepsRooms(s) ==
  /\ sidToUser' = [sidToUser EXCEPT ![s] = NoUser]
  /\ \/ /\ Holds(s)
        /\ users' = [users EXCEPT ![sidToUser[s]] =
                       [sid |-> NoSid, status |-> "Disconnected", rooms |-> @.rooms]]
     \/ ~Holds(s) /\ UNCHANGED users

(* Mutant: the sid is looked up but not popped. *)
DisconnectKeepsSid(s) ==
  /\ UNCHANGED sidToUser
  /\ \/ /\ Holds(s)
        /\ users' = [users EXCEPT ![sidToUser[s]] =
                       [sid |-> NoSid, status |-> "Disconnected", rooms |-> {}]]
     \/ ~Holds(s) /\ UNCHANGED users

Disconnect(s) ==
  /\ sidToUser' = [sidToUser EXCEPT ![s] = NoUser]
  /\ \/ /\ Holds(s)
        /\ users' = [users EXCEPT ![sidToUser[s]] =
                       [sid |-> NoSid, status |-> "Disconnected", rooms |-> {}]]
     \/ ~Holds(s) /\ UNCHANGED users

AddRoom(s, r) ==
  /\ UNCHANGED sidToUser
  /\ \/ /\ ClientOf(s) # NoClient
        /\ users' = [users EXCEPT ![sidToUser[s]].rooms = @ \cup {r}]
     \/ ClientOf(s) = NoClient /\ UNCHANGED users

RemoveRoom(s, r) ==
  /\ UNCHANGED sidToUser
  /\ \/ /\ ClientOf(s) # NoClient
        /\ users' = [users EXCEPT ![sidToUser[s]].rooms = @ \ {r}]
     \/ ClientOf(s) = NoClient /\ UNCHANGED users

Clear ==
  /\ users' = [u \in Users |-> NoClient]
  /\ sidToUser' = [s \in Sids |-> NoUser]

(* The Socket.IO server hands out a sid that no current session has.  All  *)
(* other methods may be called with any sid, stale ones included.          *)
Next ==
  \/ \E u \in Users, s \in Sids : sidToUser[s] = NoUser /\ Connect(u, s)
  \/ \E s \in Sids : Disconnect(s)
  \/ \E s \in Sids, r \in Rooms : AddRoom(s, r) \/ RemoveRoom(s, r)
  \/ Clear

Spec == Init /\ [][Next]_regVars

-----------------------------------------------------------------------------
(* Properties *)

(* Types of the two dictionaries of registry.py:37-38. *)
TypeOK ==
  /\ users \in [Users -> ClientState \cup {NoClient}]
  /\ sidToUser \in [Sids -> Users \cup {NoUser}]

(* The two dictionaries agree: a sid resolves to a user exactly while that *)
(* user is registered with that sid.  So no request of a replaced or ended *)
(* session is ever charged to a user, and no online user is unreachable    *)
(* through its own sid (connect pops the old sid, disconnect its own).     *)
IndexAgrees ==
  \A s \in Sids, u \in Users :
    sidToUser[s] = u <=> users[u] # NoClient /\ users[u].sid = s

(* A user without a session is in no room and counts nowhere: the status,  *)
(* sid and rooms that disconnect() resets one by one never disagree, so    *)
(* clients_for_room, active_sids and connected_count (three different      *)
(* filters) answer about the same clients.                                 *)
OfflineIsEmpty ==
  \A u \in Users :
    users[u] # NoClient =>
      /\ users[u].status = "Connected" <=> users[u].sid # NoSid
      /\ users[u].sid = NoSid => users[u].rooms = {}

(* The public queries describe one population: connected_count() counts    *)
(* the sids of active_sids(), these are the sids the registry resolves,    *)
(* and everyone listed for a room is reachable through one of them.        *)
QueriesAgree ==
  /\ ActiveSids = {s \in Sids : sidToUser[s] # NoUser}
  /\ ConnectedCount = Cardinality(ActiveSids)
  /\ \A r \in Rooms : \A u \in ClientsForRoom(r) :
       \E s \in ActiveSids : sidToUser[s] = u /\ IsInRoom(s, r)

(* The registry implements Presence: a user's session is its current sid   *)
(* and rooms, and everything else (status, sid index, remembered offline   *)
(* users) is bookkeeping no caller can tell apart.                         *)
OneSession ==
  [u \in Users |->
    IF users[u] = NoClient THEN [sid |-> NoSid, rooms |-> {}]
    ELSE [sid |-> users[u].sid, rooms |-> users[u].rooms]]

P == INSTANCE Presence WITH session <- OneSession

ImplementsPresence == P!Spec
=============================================================================
