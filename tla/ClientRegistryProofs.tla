------------------------ MODULE ClientRegistryProofs ------------------------
(***************************************************************************)
(* Proofs about the registry, for every set of users, sids and rooms.      *)
(* IndexAgrees is inductive given the types; OfflineIsEmpty likewise, and  *)
(* with it the refinement of Presence follows step by step.                *)
(***************************************************************************)
EXTENDS ClientRegistry, TLAPS, FiniteSetTheorems

RegInv == TypeOK /\ IndexAgrees /\ OfflineIsEmpty

(* What a registered user's record looks like: used to open the lookup.    *)
LEMMA ClientRecord ==
  ASSUME TypeOK, NEW u \in Users, users[u] # NoClient
  PROVE  /\ users[u] \in ClientState
         /\ users[u].sid \in Sids \cup {NoSid}
         /\ users[u].status \in {"Connected", "Disconnected"}
         /\ users[u].rooms \subseteq Rooms
BY DEF TypeOK, ClientState

(* A client found through a sid is the client registered with that sid.    *)
LEMMA ClientOfSid ==
  ASSUME TypeOK, IndexAgrees, NEW s \in Sids, ClientOf(s) # NoClient
  PROVE  /\ sidToUser[s] \in Users
         /\ users[sidToUser[s]] # NoClient
         /\ users[sidToUser[s]].sid = s
         /\ Holds(s)
BY NullValues DEF TypeOK, IndexAgrees, ClientOf, Holds

(* A newly connected or freshly ended record is a ClientState.             *)
LEMMA NewRecord ==
  /\ \A s \in Sids : [sid |-> s, status |-> "Connected", rooms |-> {}] \in ClientState
  /\ [sid |-> NoSid, status |-> "Disconnected", rooms |-> {}] \in ClientState
BY DEF ClientState

(* Changing the rooms of a ClientState gives a ClientState with the same   *)
(* sid and status.                                                         *)
LEMMA WithRooms ==
  ASSUME NEW c \in ClientState, NEW R \in SUBSET Rooms
  PROVE  /\ [c EXCEPT !.rooms = R] \in ClientState
         /\ [c EXCEPT !.rooms = R].sid = c.sid
         /\ [c EXCEPT !.rooms = R].status = c.status
         /\ [c EXCEPT !.rooms = R].rooms = R
         /\ [c EXCEPT !.rooms = R] # NoClient
BY NullValues DEF ClientState

-----------------------------------------------------------------------------
(* One lemma per operation: each keeps the invariant.                      *)

LEMMA InitInv == Init => RegInv
BY NullValues DEF Init, RegInv, TypeOK, IndexAgrees, OfflineIsEmpty, ClientState

LEMMA ConnectInv ==
  ASSUME RegInv, NEW u \in Users, NEW s \in Sids, sidToUser[s] = NoUser, Connect(u, s)
  PROVE  RegInv'
<1> USE DEF RegInv
<1> DEFINE new == [sid |-> s, status |-> "Connected", rooms |-> {}]
<1>1. /\ users' = [users EXCEPT ![u] = new]
      /\ users'[u] = new
      /\ \A v \in Users \ {u} : users'[v] = users[v]
  BY DEF Connect, TypeOK
<1>2. /\ new \in ClientState
      /\ new # NoClient
      /\ new.sid = s /\ new.status = "Connected" /\ new.rooms = {}
  BY NewRecord, NullValues
<1>3. \A t \in Sids : sidToUser'[t] = IF t = s THEN u
                                      ELSE IF t = OldSid(u) THEN NoUser ELSE sidToUser[t]
  BY DEF Connect
<1>4. TypeOK'
  <2>1. users' \in [Users -> ClientState \cup {NoClient}]
    BY <1>1, <1>2 DEF TypeOK
  <2>2. sidToUser' \in [Sids -> Users \cup {NoUser}]
    BY DEF Connect, TypeOK
  <2>. QED BY <2>1, <2>2 DEF TypeOK
<1> HIDE DEF new
<1>5. IndexAgrees'
  <2> SUFFICES ASSUME NEW t \in Sids, NEW v \in Users
               PROVE  sidToUser'[t] = v <=> users'[v] # NoClient /\ users'[v].sid = t
    BY DEF IndexAgrees
  <2>1. CASE t = s
    <3>1. ~(users[v] # NoClient /\ users[v].sid = s)
      BY NullValues DEF IndexAgrees
    <3>. QED BY <2>1, <3>1, <1>1, <1>2, <1>3
  <2>2. CASE t # s /\ t = OldSid(u)
    <3>1. sidToUser[t] = u /\ sidToUser'[t] = NoUser
      BY <2>2, <1>3, NullValues DEF OldSid, IndexAgrees
    <3>. QED BY <2>2, <3>1, <1>1, <1>2, NullValues DEF IndexAgrees
  <2>3. CASE t # s /\ t # OldSid(u)
    <3>1. sidToUser'[t] = sidToUser[t] /\ sidToUser[t] # u
      BY <2>3, <1>3, NullValues DEF OldSid, IndexAgrees
    <3>. QED BY <2>3, <3>1, <1>1, <1>2 DEF IndexAgrees
  <2>. QED BY <2>1, <2>2, <2>3
<1>6. OfflineIsEmpty'
  BY <1>1, <1>2, NullValues DEF OfflineIsEmpty
<1>. QED BY <1>4, <1>5, <1>6

LEMMA DisconnectInv ==
  ASSUME RegInv, NEW s \in Sids, Disconnect(s)
  PROVE  RegInv'
<1> USE DEF RegInv
<1> DEFINE ended == [sid |-> NoSid, status |-> "Disconnected", rooms |-> {}]
<1>1. /\ sidToUser' = [sidToUser EXCEPT ![s] = NoUser]
      /\ sidToUser'[s] = NoUser
      /\ \A t \in Sids \ {s} : sidToUser'[t] = sidToUser[t]
  BY DEF Disconnect, TypeOK
<1>2. /\ ended \in ClientState
      /\ ended # NoClient
      /\ ended.sid = NoSid /\ ended.status = "Disconnected" /\ ended.rooms = {}
  BY NewRecord, NullValues
<1>3. CASE Holds(s)
  <2> DEFINE u == sidToUser[s]
  <2>1. u \in Users /\ users[u] # NoClient /\ users[u].sid = s
    BY <1>3, NullValues DEF Holds, TypeOK
  <2>2. /\ users' = [users EXCEPT ![u] = ended]
        /\ users'[u] = ended
        /\ \A v \in Users \ {u} : users'[v] = users[v]
    BY <1>3, <2>1 DEF Disconnect, TypeOK
  <2>3. TypeOK'
    BY <1>1, <1>2, <2>2 DEF TypeOK
  <2> HIDE DEF ended
  <2>4. IndexAgrees'
    <3> SUFFICES ASSUME NEW t \in Sids, NEW v \in Users
                 PROVE  sidToUser'[t] = v <=> users'[v] # NoClient /\ users'[v].sid = t
      BY DEF IndexAgrees
    <3>1. CASE t = s
      BY <3>1, <1>1, <1>2, <2>1, <2>2, NullValues DEF IndexAgrees
    <3>2. CASE t # s
      BY <3>2, <1>1, <1>2, <2>1, <2>2, NullValues DEF IndexAgrees
    <3>. QED BY <3>1, <3>2
  <2>5. OfflineIsEmpty'
    BY <1>2, <2>2, NullValues DEF OfflineIsEmpty
  <2>. QED BY <2>3, <2>4, <2>5
<1>4. CASE ~Holds(s)
  <2>1. users' = users
    BY <1>4 DEF Disconnect
  <2>2. TypeOK'
    BY <1>1, <2>1 DEF TypeOK
  <2>3. IndexAgrees'
    BY <1>1, <1>4, <2>1, NullValues DEF IndexAgrees, Holds
  <2>4. OfflineIsEmpty'
    BY <2>1 DEF OfflineIsEmpty
  <2>. QED BY <2>2, <2>3, <2>4
<1>. QED BY <1>3, <1>4

(* AddRoom and RemoveRoom both replace the rooms of the client found.      *)
LEMMA SetRoomsInv ==
  ASSUME RegInv, NEW s \in Sids, ClientOf(s) # NoClient, NEW R \in SUBSET Rooms,
         users' = [users EXCEPT ![sidToUser[s]].rooms = R], UNCHANGED sidToUser
  PROVE  RegInv'
<1> USE DEF RegInv
<1> DEFINE u == sidToUser[s]
           c == [users[u] EXCEPT !.rooms = R]
<1>1. u \in Users /\ users[u] # NoClient /\ users[u].sid = s
  BY ClientOfSid
<1>2. users[u] \in ClientState
  BY <1>1, ClientRecord
<1>3. /\ c \in ClientState /\ c # NoClient
      /\ c.sid = s /\ c.status = users[u].status /\ c.rooms = R
  BY <1>1, <1>2, WithRooms
<1>4. /\ users' = [users EXCEPT ![u] = c]
      /\ users'[u] = c
      /\ \A v \in Users \ {u} : users'[v] = users[v]
  BY <1>1 DEF TypeOK
<1> HIDE DEF c
<1>5. TypeOK'
  BY <1>1, <1>3, <1>4 DEF TypeOK
<1>6. IndexAgrees'
  BY <1>1, <1>3, <1>4 DEF IndexAgrees
<1>7. OfflineIsEmpty'
  BY <1>1, <1>3, <1>4, NullValues DEF OfflineIsEmpty
<1>. QED BY <1>5, <1>6, <1>7

LEMMA AddRoomInv ==
  ASSUME RegInv, NEW s \in Sids, NEW r \in Rooms, AddRoom(s, r)
  PROVE  RegInv'
<1>1. CASE ClientOf(s) # NoClient
  <2>1. sidToUser[s] \in Users /\ users[sidToUser[s]].rooms \subseteq Rooms
    BY <1>1, ClientOfSid, ClientRecord DEF RegInv
  <2>. QED BY <1>1, <2>1, SetRoomsInv DEF AddRoom
<1>2. CASE ClientOf(s) = NoClient
  BY <1>2 DEF AddRoom, RegInv, TypeOK, IndexAgrees, OfflineIsEmpty
<1>. QED BY <1>1, <1>2

LEMMA RemoveRoomInv ==
  ASSUME RegInv, NEW s \in Sids, NEW r \in Rooms, RemoveRoom(s, r)
  PROVE  RegInv'
<1>1. CASE ClientOf(s) # NoClient
  <2>1. sidToUser[s] \in Users /\ users[sidToUser[s]].rooms \subseteq Rooms
    BY <1>1, ClientOfSid, ClientRecord DEF RegInv
  <2>. QED BY <1>1, <2>1, SetRoomsInv DEF RemoveRoom
<1>2. CASE ClientOf(s) = NoClient
  BY <1>2 DEF RemoveRoom, RegInv, TypeOK, IndexAgrees, OfflineIsEmpty
<1>. QED BY <1>1, <1>2

LEMMA ClearInv == Clear => RegInv'
BY NullValues DEF Clear, RegInv, TypeOK, IndexAgrees, OfflineIsEmpty, ClientState

LEMMA NextInv == RegInv /\ [Next]_regVars => RegInv'
<1> SUFFICES ASSUME RegInv, [Next]_regVars PROVE RegInv'
  OBVIOUS
<1>1. ASSUME NEW u \in Users, NEW s \in Sids, sidToUser[s] = NoUser, Connect(u, s)
      PROVE  RegInv'
  BY <1>1, ConnectInv
<1>2. ASSUME NEW s \in Sids, Disconnect(s) PROVE RegInv'
  BY <1>2, DisconnectInv
<1>3. ASSUME NEW s \in Sids, NEW r \in Rooms, AddRoom(s, r) PROVE RegInv'
  BY <1>3, AddRoomInv
<1>4. ASSUME NEW s \in Sids, NEW r \in Rooms, RemoveRoom(s, r) PROVE RegInv'
  BY <1>4, RemoveRoomInv
<1>5. CASE Clear
  BY <1>5, ClearInv
<1>6. CASE UNCHANGED regVars
  BY <1>6 DEF regVars, RegInv, TypeOK, IndexAgrees, OfflineIsEmpty
<1>. QED BY <1>1, <1>2, <1>3, <1>4, <1>5, <1>6 DEF Next

-----------------------------------------------------------------------------
(* The two dictionaries keep their types (registry.py:37-38).              *)
THEOREM TypeCorrect == Spec => []TypeOK
<1>1. RegInv => TypeOK
  BY DEF RegInv
<1>. QED BY <1>1, InitInv, NextInv, PTL DEF Spec

(* The two dictionaries always agree: a sid resolves to exactly the user   *)
(* registered with it, whatever stale sids the methods are called with.    *)
THEOREM IndexCorrect == Spec => []IndexAgrees
<1>1. RegInv => IndexAgrees
  BY DEF RegInv
<1>. QED BY <1>1, InitInv, NextInv, PTL DEF Spec

(* A client's status, sid and rooms never disagree.                        *)
THEOREM OfflineCorrect == Spec => []OfflineIsEmpty
<1>1. RegInv => OfflineIsEmpty
  BY DEF RegInv
<1>. QED BY <1>1, InitInv, NextInv, PTL DEF Spec

-----------------------------------------------------------------------------
(* What the operations do to the answers for a sid.  A sid is denied a     *)
(* room if it resolves to a client that is not in the room.  Except for    *)
(* the sid that connects, and the room that is left, no operation denies   *)
(* a sid a room that it was not denied before.                             *)
Denied(s, r) == ClientOf(s) # NoClient /\ ~IsInRoom(s, r)

(* Two sids never resolve to one user.                                     *)
LEMMA OneSidPerUser ==
  ASSUME RegInv, NEW s \in Sids, NEW o \in Sids, sidToUser[s] = sidToUser[o],
         sidToUser[s] # NoUser
  PROVE  s = o
BY DEF RegInv, TypeOK, IndexAgrees

(* Only the user's own sids resolve differently after a user changed.      *)
LEMMA OthersResolve ==
  ASSUME RegInv, NEW u \in Users, NEW c, users' = [users EXCEPT ![u] = c],
         NEW o \in Sids, sidToUser'[o] = sidToUser[o], sidToUser[o] # u
  PROVE  ClientOf(o)' = ClientOf(o)
BY DEF RegInv, TypeOK, ClientOf

LEMMA ConnectDenies ==
  ASSUME RegInv, NEW u \in Users, NEW s \in Sids, sidToUser[s] = NoUser, Connect(u, s),
         NEW o \in Sids \ {s}, NEW r \in Rooms, Denied(o, r)'
  PROVE  Denied(o, r)
<1>1. sidToUser'[o] = IF o = OldSid(u) THEN NoUser ELSE sidToUser[o]
  BY DEF Connect
<1>2. o # OldSid(u) /\ sidToUser'[o] = sidToUser[o]
  BY <1>1 DEF Denied, ClientOf
<1>3. sidToUser[o] # u
  BY <1>2, NullValues DEF RegInv, IndexAgrees, OldSid
<1>4. ClientOf(o)' = ClientOf(o)
  BY <1>2, <1>3, OthersResolve DEF Connect
<1>. QED BY <1>4 DEF Denied, IsInRoom, RoomsForSid

LEMMA DisconnectDenies ==
  ASSUME RegInv, NEW s \in Sids, Disconnect(s), NEW o \in Sids, NEW r \in Rooms,
         Denied(o, r)'
  PROVE  Denied(o, r)
<1>1. o # s /\ sidToUser'[o] = sidToUser[o]
  BY DEF Denied, ClientOf, Disconnect, RegInv, TypeOK
<1>2. ClientOf(o)' = ClientOf(o)
  <2>1. CASE Holds(s)
    <3>1. sidToUser[s] \in Users /\ sidToUser[s] # sidToUser[o]
      BY <1>1, <2>1, OneSidPerUser DEF Holds, RegInv, TypeOK
    <3>. QED BY <1>1, <2>1, <3>1, OthersResolve DEF Disconnect
  <2>2. CASE ~Holds(s)
    BY <1>1, <2>2 DEF Disconnect, ClientOf
  <2>. QED BY <2>1, <2>2
<1>. QED BY <1>2 DEF Denied, IsInRoom, RoomsForSid

(* Changing the rooms of the client of s, in terms of the answers.         *)
LEMMA SetRoomsDenies ==
  ASSUME RegInv, NEW s \in Sids, ClientOf(s) # NoClient, NEW R \in SUBSET Rooms,
         users' = [users EXCEPT ![sidToUser[s]].rooms = R], UNCHANGED sidToUser,
         NEW o \in Sids
  PROVE  /\ o # s => ClientOf(o)' = ClientOf(o)
         /\ RoomsForSid(s)' = R
<1>1. sidToUser[s] \in Users /\ users[sidToUser[s]] # NoClient
  BY ClientOfSid DEF RegInv
<1> DEFINE c == [users[sidToUser[s]] EXCEPT !.rooms = R]
<1>2. users' = [users EXCEPT ![sidToUser[s]] = c]
  OBVIOUS
<1>3. c.rooms = R /\ c # NoClient
  BY <1>1, ClientRecord, WithRooms DEF RegInv
<1>4. o # s => sidToUser[s] # sidToUser[o]
  BY <1>1, NullValues, OneSidPerUser
<1>5. users'[sidToUser[s]] = c
  BY <1>1, <1>2 DEF RegInv, TypeOK
<1> HIDE DEF c
<1>6. o # s => ClientOf(o)' = ClientOf(o)
  BY <1>1, <1>2, <1>4, OthersResolve
<1>7. RoomsForSid(s)' = R
  BY <1>1, <1>3, <1>5, NullValues DEF RoomsForSid, ClientOf
<1>. QED BY <1>6, <1>7

LEMMA AddRoomDenies ==
  ASSUME RegInv, NEW s \in Sids, NEW r \in Rooms, AddRoom(s, r),
         NEW o \in Sids, NEW q \in Rooms, Denied(o, q)'
  PROVE  Denied(o, q) /\ <<o, q>> # <<s, r>>
<1>1. CASE ClientOf(s) # NoClient
  <2>1. RoomsForSid(s) = users[sidToUser[s]].rooms /\ RoomsForSid(s) \subseteq Rooms
    BY <1>1, ClientOfSid, ClientRecord DEF RegInv, RoomsForSid, ClientOf
  <2>2. users' = [users EXCEPT ![sidToUser[s]].rooms = RoomsForSid(s) \cup {r}]
    BY <1>1, <2>1 DEF AddRoom
  <2>3. /\ o # s => ClientOf(o)' = ClientOf(o)
        /\ RoomsForSid(s)' = RoomsForSid(s) \cup {r}
    BY <1>1, <2>1, <2>2, SetRoomsDenies DEF AddRoom
  <2>. QED BY <1>1, <2>3 DEF Denied, IsInRoom, RoomsForSid
<1>2. CASE ClientOf(s) = NoClient
  BY <1>2 DEF AddRoom, Denied, IsInRoom, RoomsForSid, ClientOf
<1>. QED BY <1>1, <1>2

LEMMA RemoveRoomDenies ==
  ASSUME RegInv, NEW s \in Sids, NEW r \in Rooms, RemoveRoom(s, r),
         NEW o \in Sids, NEW q \in Rooms, Denied(o, q)', ~Denied(o, q)
  PROVE  o = s /\ q = r
<1>1. CASE ClientOf(s) # NoClient
  <2>1. RoomsForSid(s) = users[sidToUser[s]].rooms /\ RoomsForSid(s) \subseteq Rooms
    BY <1>1, ClientOfSid, ClientRecord DEF RegInv, RoomsForSid, ClientOf
  <2>2. users' = [users EXCEPT ![sidToUser[s]].rooms = RoomsForSid(s) \ {r}]
    BY <1>1, <2>1 DEF RemoveRoom
  <2>3. /\ o # s => ClientOf(o)' = ClientOf(o)
        /\ RoomsForSid(s)' = RoomsForSid(s) \ {r}
    BY <1>1, <2>1, <2>2, SetRoomsDenies DEF RemoveRoom
  <2>. QED BY <1>1, <2>3 DEF Denied, IsInRoom, RoomsForSid
<1>2. CASE ClientOf(s) = NoClient
  BY <1>2 DEF RemoveRoom, Denied, IsInRoom, RoomsForSid, ClientOf
<1>. QED BY <1>1, <1>2

LEMMA ClearDenies ==
  ASSUME Clear, NEW o \in Sids, NEW r \in Rooms
  PROVE  ~Denied(o, r)'
BY DEF Clear, Denied, ClientOf

(* ... nor does any operation but adding it admit a sid to a room.         *)

LEMMA ConnectAdmits ==
  ASSUME RegInv, NEW u \in Users, NEW s \in Sids, sidToUser[s] = NoUser, Connect(u, s),
         NEW o \in Sids, NEW r \in Rooms, IsInRoom(o, r)'
  PROVE  IsInRoom(o, r)
<1> DEFINE new == [sid |-> s, status |-> "Connected", rooms |-> {}]
<1>1. sidToUser'[o] = IF o = s THEN u ELSE IF o = OldSid(u) THEN NoUser ELSE sidToUser[o]
  BY DEF Connect
<1>2. sidToUser'[o] # NoUser /\ (ClientOf(o) # NoClient)'
  BY DEF IsInRoom, RoomsForSid, ClientOf
<1>3. users' = [users EXCEPT ![u] = new] /\ users'[u] = new /\ new.rooms = {}
  BY DEF Connect, RegInv, TypeOK
<1> HIDE DEF new
<1>4. o # s
  BY <1>1, <1>2, <1>3 DEF IsInRoom, RoomsForSid, ClientOf
<1>5. sidToUser'[o] = sidToUser[o] /\ sidToUser[o] # u
  BY <1>1, <1>2, <1>4, NullValues DEF RegInv, IndexAgrees, OldSid
<1>6. ClientOf(o)' = ClientOf(o)
  BY <1>3, <1>5, OthersResolve
<1>. QED BY <1>6 DEF IsInRoom, RoomsForSid

LEMMA DisconnectAdmits ==
  ASSUME RegInv, NEW s \in Sids, Disconnect(s), NEW o \in Sids, NEW r \in Rooms,
         IsInRoom(o, r)'
  PROVE  IsInRoom(o, r)
<1>1. o # s /\ sidToUser'[o] = sidToUser[o]
  BY DEF IsInRoom, RoomsForSid, ClientOf, Disconnect, RegInv, TypeOK
<1>2. ClientOf(o)' = ClientOf(o)
  <2>1. CASE Holds(s)
    <3>1. sidToUser[s] \in Users /\ sidToUser[s] # sidToUser[o]
      BY <1>1, <2>1, OneSidPerUser DEF Holds, RegInv, TypeOK
    <3>. QED BY <1>1, <2>1, <3>1, OthersResolve DEF Disconnect
  <2>2. CASE ~Holds(s)
    BY <1>1, <2>2 DEF Disconnect, ClientOf
  <2>. QED BY <2>1, <2>2
<1>. QED BY <1>2 DEF IsInRoom, RoomsForSid

LEMMA AddRoomAdmits ==
  ASSUME RegInv, NEW s \in Sids, NEW r \in Rooms, AddRoom(s, r),
         NEW o \in Sids, NEW q \in Rooms, IsInRoom(o, q)', ~IsInRoom(o, q)
  PROVE  o = s /\ q = r /\ sidToUser[s] # NoUser
<1>1. CASE ClientOf(s) # NoClient
  <2>1. RoomsForSid(s) = users[sidToUser[s]].rooms /\ RoomsForSid(s) \subseteq Rooms
    BY <1>1, ClientOfSid, ClientRecord DEF RegInv, RoomsForSid, ClientOf
  <2>2. users' = [users EXCEPT ![sidToUser[s]].rooms = RoomsForSid(s) \cup {r}]
    BY <1>1, <2>1 DEF AddRoom
  <2>3. /\ o # s => ClientOf(o)' = ClientOf(o)
        /\ RoomsForSid(s)' = RoomsForSid(s) \cup {r}
    BY <1>1, <2>1, <2>2, SetRoomsDenies DEF AddRoom
  <2>4. sidToUser[s] # NoUser
    BY <1>1 DEF ClientOf
  <2>. QED BY <2>3, <2>4 DEF IsInRoom, RoomsForSid
<1>2. CASE ClientOf(s) = NoClient
  BY <1>2 DEF AddRoom, IsInRoom, RoomsForSid, ClientOf
<1>. QED BY <1>1, <1>2

LEMMA RemoveRoomAdmits ==
  ASSUME RegInv, NEW s \in Sids, NEW r \in Rooms, RemoveRoom(s, r),
         NEW o \in Sids, NEW q \in Rooms, IsInRoom(o, q)'
  PROVE  IsInRoom(o, q) /\ <<o, q>> # <<s, r>>
<1>1. CASE ClientOf(s) # NoClient
  <2>1. RoomsForSid(s) = users[sidToUser[s]].rooms /\ RoomsForSid(s) \subseteq Rooms
    BY <1>1, ClientOfSid, ClientRecord DEF RegInv, RoomsForSid, ClientOf
  <2>2. users' = [users EXCEPT ![sidToUser[s]].rooms = RoomsForSid(s) \ {r}]
    BY <1>1, <2>1 DEF RemoveRoom
  <2>3. /\ o # s => ClientOf(o)' = ClientOf(o)
        /\ RoomsForSid(s)' = RoomsForSid(s) \ {r}
    BY <1>1, <2>1, <2>2, SetRoomsDenies DEF RemoveRoom
  <2>. QED BY <2>3 DEF IsInRoom, RoomsForSid
<1>2. CASE ClientOf(s) = NoClient
  BY <1>2 DEF RemoveRoom, IsInRoom, RoomsForSid, ClientOf
<1>. QED BY <1>1, <1>2

LEMMA ClearAdmits ==
  ASSUME Clear, NEW o \in Sids, NEW r \in Rooms
  PROVE  ~IsInRoom(o, r)'
BY DEF Clear, IsInRoom, RoomsForSid, ClientOf

-----------------------------------------------------------------------------
(* Refinement: every step of the registry is a step of Presence or none.   *)

(* Reading the mapping at one user.                                        *)
LEMMA MapAt ==
  \A u \in Users :
    /\ users[u] = NoClient => OneSession[u] = [sid |-> NoSid, rooms |-> {}]
    /\ users[u] # NoClient => OneSession[u] = [sid |-> users[u].sid, rooms |-> users[u].rooms]
    /\ users[u] = NoClient => OneSession[u].sid = NoSid
    /\ users[u] # NoClient => OneSession[u].sid = users[u].sid
    /\ users[u] # NoClient => OneSession[u].rooms = users[u].rooms
BY DEF OneSession

(* Changing one user's record changes one user's session.                  *)
LEMMA MapUpdate ==
  ASSUME TypeOK, NEW u \in Users, NEW c \in ClientState,
         users' = [users EXCEPT ![u] = c]
  PROVE  OneSession' = [OneSession EXCEPT ![u] = [sid |-> c.sid, rooms |-> c.rooms]]
<1>1. c # NoClient
  BY NullValues
<1>2. \A v \in Users : users'[v] = IF v = u THEN c ELSE users[v]
  BY DEF TypeOK
<1>. QED BY <1>1, <1>2 DEF OneSession

LEMMA InitMaps == Init => P!Init
BY DEF Init, P!Init, P!Offline, OneSession

LEMMA ConnectMaps ==
  ASSUME RegInv, NEW u \in Users, NEW s \in Sids, sidToUser[s] = NoUser, Connect(u, s)
  PROVE  P!Open(u, s)
<1> DEFINE new == [sid |-> s, status |-> "Connected", rooms |-> {}]
<1>1. new \in ClientState /\ new.sid = s /\ new.rooms = {}
  BY NewRecord
<1>2. users' = [users EXCEPT ![u] = new]
  BY DEF Connect
<1>3. OneSession' = [OneSession EXCEPT ![u] = [sid |-> s, rooms |-> {}]]
  <2> HIDE DEF new
  <2>. QED BY <1>1, <1>2, MapUpdate DEF RegInv
<1>4. ~P!Online(s)
  <2> SUFFICES ASSUME NEW v \in Users, OneSession[v].sid = s PROVE FALSE
    BY DEF P!Online
  <2>1. users[v] # NoClient /\ users[v].sid = s
    BY MapAt, NullValues
  <2>. QED BY <2>1, NullValues DEF RegInv, IndexAgrees
<1>. QED BY <1>3, <1>4 DEF P!Open

LEMMA DisconnectMaps ==
  ASSUME RegInv, NEW s \in Sids, Disconnect(s)
  PROVE  (\E u \in Users : P!Close(u)) \/ UNCHANGED OneSession
<1>1. CASE Holds(s)
  <2> DEFINE u == sidToUser[s]
             ended == [sid |-> NoSid, status |-> "Disconnected", rooms |-> {}]
  <2>1. u \in Users /\ users[u] # NoClient /\ users[u].sid = s
    BY <1>1 DEF Holds, RegInv, TypeOK
  <2>2. ended \in ClientState /\ ended.sid = NoSid /\ ended.rooms = {}
    BY NewRecord
  <2>3. users' = [users EXCEPT ![u] = ended]
    BY <1>1 DEF Disconnect
  <2>4. OneSession' = [OneSession EXCEPT ![u] = [sid |-> NoSid, rooms |-> {}]]
    <3> HIDE DEF ended, u
    <3>. QED BY <2>1, <2>2, <2>3, MapUpdate DEF RegInv
  <2>5. OneSession[u].sid = s
    BY <2>1, MapAt
  <2>6. P!Close(u)
    BY <2>4, <2>5, NullValues DEF P!Close, P!Offline
  <2>. QED BY <2>1, <2>6
<1>2. CASE ~Holds(s)
  BY <1>2 DEF Disconnect, OneSession
<1>. QED BY <1>1, <1>2

(* What AddRoom and RemoveRoom do to the session of the client found.      *)
LEMMA SetRoomsMaps ==
  ASSUME RegInv, NEW s \in Sids, ClientOf(s) # NoClient, NEW R \in SUBSET Rooms,
         users' = [users EXCEPT ![sidToUser[s]].rooms = R]
  PROVE  /\ sidToUser[s] \in Users
         /\ OneSession[sidToUser[s]].sid = s
         /\ OneSession[sidToUser[s]].rooms = users[sidToUser[s]].rooms
         /\ OneSession' = [OneSession EXCEPT ![sidToUser[s]].rooms = R]
<1> DEFINE u == sidToUser[s]
           c == [users[u] EXCEPT !.rooms = R]
<1>1. u \in Users /\ users[u] # NoClient /\ users[u].sid = s
  BY ClientOfSid DEF RegInv
<1>2. users[u] \in ClientState
  BY <1>1, ClientRecord DEF RegInv
<1>3. c \in ClientState /\ c.sid = s /\ c.rooms = R
  BY <1>1, <1>2, WithRooms
<1>4. users' = [users EXCEPT ![u] = c]
  OBVIOUS
<1>5. OneSession[u] = [sid |-> s, rooms |-> users[u].rooms]
  BY <1>1, MapAt
<1>6. OneSession' = [OneSession EXCEPT ![u] = [sid |-> s, rooms |-> R]]
  <2> HIDE DEF c, u
  <2>. QED BY <1>1, <1>3, <1>4, MapUpdate DEF RegInv
<1>7. OneSession[u].sid = s /\ OneSession[u].rooms = users[u].rooms
  BY <1>5
<1>8. [OneSession EXCEPT ![u].rooms = R] = [OneSession EXCEPT ![u] = [sid |-> s, rooms |-> R]]
  <2>1. [OneSession[u] EXCEPT !.rooms = R] = [sid |-> s, rooms |-> R]
    BY <1>5
  <2>. QED BY <2>1
<1>. QED BY <1>1, <1>6, <1>7, <1>8

LEMMA AddRoomMaps ==
  ASSUME RegInv, NEW s \in Sids, NEW r \in Rooms, AddRoom(s, r)
  PROVE  (\E u \in Users : P!Enter(u, r)) \/ UNCHANGED OneSession
<1>1. CASE ClientOf(s) # NoClient
  <2> DEFINE u == sidToUser[s]
             R == users[u].rooms \cup {r}
  <2>1. R \in SUBSET Rooms
    BY <1>1, ClientOfSid, ClientRecord DEF RegInv
  <2>2. users' = [users EXCEPT ![u].rooms = R]
    BY <1>1 DEF AddRoom
  <2>3. /\ u \in Users /\ OneSession[u].sid = s /\ OneSession[u].rooms = users[u].rooms
        /\ OneSession' = [OneSession EXCEPT ![u].rooms = R]
    <3> HIDE DEF R
    <3>. QED BY <1>1, <2>1, <2>2, SetRoomsMaps
  <2>4. P!Enter(u, r)
    BY <2>3, NullValues DEF P!Enter
  <2>. QED BY <2>3, <2>4
<1>2. CASE ClientOf(s) = NoClient
  BY <1>2 DEF AddRoom, OneSession
<1>. QED BY <1>1, <1>2

LEMMA RemoveRoomMaps ==
  ASSUME RegInv, NEW s \in Sids, NEW r \in Rooms, RemoveRoom(s, r)
  PROVE  (\E u \in Users : P!Leave(u, r)) \/ UNCHANGED OneSession
<1>1. CASE ClientOf(s) # NoClient
  <2> DEFINE u == sidToUser[s]
             R == users[u].rooms \ {r}
  <2>1. R \in SUBSET Rooms
    BY <1>1, ClientOfSid, ClientRecord DEF RegInv
  <2>2. users' = [users EXCEPT ![u].rooms = R]
    BY <1>1 DEF RemoveRoom
  <2>3. /\ u \in Users /\ OneSession[u].sid = s /\ OneSession[u].rooms = users[u].rooms
        /\ OneSession' = [OneSession EXCEPT ![u].rooms = R]
    <3> HIDE DEF R
    <3>. QED BY <1>1, <2>1, <2>2, SetRoomsMaps
  <2>4. P!Leave(u, r)
    BY <2>3, NullValues DEF P!Leave
  <2>. QED BY <2>3, <2>4
<1>2. CASE ClientOf(s) = NoClient
  BY <1>2 DEF RemoveRoom, OneSession
<1>. QED BY <1>1, <1>2

LEMMA NextMaps == RegInv /\ [Next]_regVars => [P!Next]_OneSession
<1> SUFFICES ASSUME RegInv, [Next]_regVars PROVE P!Next \/ UNCHANGED OneSession
  OBVIOUS
<1>1. ASSUME NEW u \in Users, NEW s \in Sids, sidToUser[s] = NoUser, Connect(u, s)
      PROVE  P!Next
  BY <1>1, ConnectMaps DEF P!Next
<1>2. ASSUME NEW s \in Sids, Disconnect(s)
      PROVE  P!Next \/ UNCHANGED OneSession
  BY <1>2, DisconnectMaps DEF P!Next
<1>3. ASSUME NEW s \in Sids, NEW r \in Rooms, AddRoom(s, r)
      PROVE  P!Next \/ UNCHANGED OneSession
  BY <1>3, AddRoomMaps DEF P!Next
<1>4. ASSUME NEW s \in Sids, NEW r \in Rooms, RemoveRoom(s, r)
      PROVE  P!Next \/ UNCHANGED OneSession
  BY <1>4, RemoveRoomMaps DEF P!Next
<1>5. CASE Clear
  BY <1>5 DEF Clear, OneSession, P!Next, P!Reset, P!Offline
<1>6. CASE UNCHANGED regVars
  BY <1>6 DEF regVars, OneSession
<1>. QED BY <1>1, <1>2, <1>3, <1>4, <1>5, <1>6 DEF Next

(* The registry keeps the promise of its docstring (registry.py:28-33): it *)
(* behaves as a store of one session per user, the newest.                 *)
THEOREM RegistryImplementsPresence == Spec => ImplementsPresence
<1>1. Spec => []RegInv
  BY InitInv, NextInv, PTL DEF Spec
<1>2. RegInv /\ [Next]_regVars => [P!Next]_OneSession
  BY NextMaps
<1>. QED BY <1>1, <1>2, InitMaps, PTL DEF Spec, ImplementsPresence, P!Spec

-----------------------------------------------------------------------------
(* The queries.  That the two ways to count agree needs one more fact: the *)
(* registry only ever knows finitely many users, however many there are.   *)

Seen == {u \in Users : users[u] # NoClient}

SeenFinite == IsFiniteSet(Seen)

LEMMA SeenStep ==
  ASSUME TypeOK, [Next]_regVars
  PROVE  Seen' \subseteq Seen \/ \E u \in Users : Seen' \subseteq Seen \cup {u}
<1>1. ASSUME NEW u \in Users, NEW c, users' = [users EXCEPT ![u] = c]
      PROVE  Seen' \subseteq Seen \cup {u}
  BY <1>1 DEF Seen, TypeOK
<1>2. ASSUME NEW u \in Users, NEW s \in Sids, Connect(u, s)
      PROVE  \E v \in Users : Seen' \subseteq Seen \cup {v}
  BY <1>1, <1>2 DEF Connect
<1>3. ASSUME NEW s \in Sids, Disconnect(s) PROVE Seen' \subseteq Seen
  <2>1. CASE Holds(s)
    <3>1. sidToUser[s] \in Users /\ sidToUser[s] \in Seen
      BY <2>1 DEF Holds, TypeOK, Seen
    <3>. QED BY <1>1, <1>3, <2>1, <3>1 DEF Disconnect
  <2>2. CASE ~Holds(s)
    BY <1>3, <2>2 DEF Disconnect, Seen
  <2>. QED BY <2>1, <2>2
<1>4. ASSUME NEW s \in Sids, NEW r \in Rooms, AddRoom(s, r) \/ RemoveRoom(s, r)
      PROVE  Seen' \subseteq Seen
  <2>1. CASE ClientOf(s) # NoClient
    <3>1. sidToUser[s] \in Users /\ sidToUser[s] \in Seen
      BY <2>1 DEF ClientOf, TypeOK, Seen
    <3>. QED BY <1>1, <1>4, <2>1, <3>1 DEF AddRoom, RemoveRoom
  <2>2. CASE ClientOf(s) = NoClient
    BY <1>4, <2>2 DEF AddRoom, RemoveRoom, Seen
  <2>. QED BY <2>1, <2>2
<1>5. CASE Clear
  BY <1>5 DEF Clear, Seen
<1>6. CASE UNCHANGED regVars
  BY <1>6 DEF regVars, Seen
<1>. QED BY <1>2, <1>3, <1>4, <1>5, <1>6 DEF Next

LEMMA SeenInv == TypeOK /\ SeenFinite /\ [Next]_regVars => SeenFinite'
<1> SUFFICES ASSUME TypeOK, SeenFinite, [Next]_regVars PROVE IsFiniteSet(Seen')
  BY DEF SeenFinite
<1>1. CASE Seen' \subseteq Seen
  BY <1>1, FS_Subset DEF SeenFinite
<1>2. ASSUME NEW u \in Users, Seen' \subseteq Seen \cup {u} PROVE IsFiniteSet(Seen')
  <2>1. IsFiniteSet(Seen \cup {u})
    BY FS_AddElement DEF SeenFinite
  <2>. QED BY <1>2, <2>1, FS_Subset
<1>. QED BY <1>1, <1>2, SeenStep

LEMMA SeenInit == Init => SeenFinite
<1>1. Init => Seen = {}
  BY DEF Init, Seen
<1>. QED BY <1>1, FS_EmptySet DEF SeenFinite

(* Users that are online and their sids correspond one to one.             *)
LEMMA CountsAgree ==
  ASSUME RegInv, SeenFinite
  PROVE  ConnectedCount = Cardinality(ActiveSids)
<1> DEFINE On == {u \in Users : IsConnected(u) /\ users[u].sid # NoSid}
           f == [u \in On |-> users[u].sid]
<1>1. On \subseteq Seen /\ IsFiniteSet(On)
  <2>1. On \in SUBSET Seen
    BY DEF IsConnected, Seen
  <2>. QED BY <2>1, FS_Subset DEF SeenFinite
<1>2. ActiveSids = {users[u].sid : u \in On}
  BY DEF ActiveSids
<1>3. \A u, v \in On : users[u].sid = users[v].sid => u = v
  <2> SUFFICES ASSUME NEW u \in On, NEW v \in On, users[u].sid = users[v].sid PROVE u = v
    OBVIOUS
  <2>1. /\ u \in Users /\ users[u] # NoClient /\ users[u].sid \in Sids
        /\ v \in Users /\ users[v] # NoClient
    BY ClientRecord DEF IsConnected, RegInv
  <2>. QED BY <2>1 DEF RegInv, IndexAgrees
<1> HIDE DEF On
<1>4. f \in [On -> ActiveSids] /\ \A u \in On : f[u] = users[u].sid
  BY <1>2
<1>5. \A s \in ActiveSids : \E u \in On : f[u] = s
  BY <1>2, <1>4
<1> HIDE DEF f
<1>6. f \in Bijection(On, ActiveSids)
  BY <1>3, <1>4, <1>5 DEF Bijection, Injection, Surjection, IsInjective
<1>7. Cardinality(ActiveSids) = Cardinality(On)
  BY <1>1, <1>6, FS_Bijection DEF ExistsBijection
<1>. QED BY <1>7 DEF ConnectedCount, On

LEMMA ActiveAreResolved ==
  ASSUME RegInv
  PROVE  ActiveSids = {s \in Sids : sidToUser[s] # NoUser}
<1>1. ASSUME NEW s \in ActiveSids PROVE s \in Sids /\ sidToUser[s] # NoUser
  <2>1. PICK u \in Users : users[u] # NoClient /\ users[u].sid # NoSid /\ s = users[u].sid
    BY DEF ActiveSids, IsConnected
  <2>2. s \in Sids
    BY <2>1, ClientRecord DEF RegInv
  <2>. QED BY <2>1, <2>2, NullValues DEF RegInv, IndexAgrees
<1>2. ASSUME NEW s \in Sids, sidToUser[s] # NoUser PROVE s \in ActiveSids
  <2>1. /\ sidToUser[s] \in Users /\ users[sidToUser[s]] # NoClient
        /\ users[sidToUser[s]].sid = s
    BY <1>2 DEF RegInv, TypeOK, IndexAgrees
  <2>2. users[sidToUser[s]].status = "Connected"
    BY <2>1, NullValues DEF RegInv, OfflineIsEmpty
  <2>. QED BY <2>1, <2>2, NullValues DEF ActiveSids, IsConnected
<1>. QED BY <1>1, <1>2

LEMMA ListedAreReachable ==
  ASSUME RegInv, NEW r \in Rooms, NEW u \in ClientsForRoom(r)
  PROVE  \E s \in ActiveSids : sidToUser[s] = u /\ IsInRoom(s, r)
<1>1. u \in Users /\ users[u] # NoClient /\ users[u].status = "Connected" /\ r \in users[u].rooms
  BY DEF ClientsForRoom, IsConnected
<1>2. users[u].sid \in Sids
  BY <1>1, ClientRecord DEF RegInv, OfflineIsEmpty
<1>3. sidToUser[users[u].sid] = u /\ u # NoUser
  BY <1>1, <1>2, NullValues DEF RegInv, IndexAgrees
<1>4. users[u].sid \in ActiveSids
  BY <1>2, <1>3, ActiveAreResolved
<1>5. IsInRoom(users[u].sid, r)
  BY <1>1, <1>3 DEF IsInRoom, RoomsForSid, ClientOf
<1>. QED BY <1>3, <1>4, <1>5

(* The queries describe one population, however they compute it: the count *)
(* is that of the active sids, these are the sids the registry resolves,   *)
(* and everyone listed for a room is reachable through one of them.        *)
THEOREM QueriesCorrect == Spec => []QueriesAgree
<1>1. RegInv /\ SeenFinite => QueriesAgree
  BY CountsAgree, ActiveAreResolved, ListedAreReachable DEF QueriesAgree
<1>2. RegInv => TypeOK
  BY DEF RegInv
<1>. QED BY <1>1, <1>2, InitInv, NextInv, SeenInit, SeenInv, PTL DEF Spec
=============================================================================
