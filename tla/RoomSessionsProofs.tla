------------------------- MODULE RoomSessionsProofs -------------------------
(***************************************************************************)
(* Proofs about the handlers, for any users, sids, rooms and threads and   *)
(* for everything the environment may do: they use the registry as its     *)
(* specification expects, and no quiet session is a hidden receiver.       *)
(*                                                                         *)
(* NoHiddenReceiver is not inductive: while requests are being handled, a  *)
(* session may well receive a room it is denied.  Explained says that some *)
(* handler is then about to end this; that no room is left over from the   *)
(* time before a session is registered follows from Fresh and Handshake:   *)
(* until connect() was called, nothing else is done in a session's name.   *)
(*                                                                         *)
(* The other properties hold in part of the circumstances only, and each   *)
(* theorem excludes just what its property does not survive: pipelining,   *)
(* an early loss, or failing evictions and shutdowns.  Their invariants    *)
(* are proved from Moves(t), which says once for every action what a step  *)
(* of a thread can do to each part of the state, and where the handler     *)
(* must be for that; no invariant of the second half looks at an action.   *)
(***************************************************************************)
EXTENDS RoomSessions, TLAPS

RP == INSTANCE ClientRegistryProofs

-----------------------------------------------------------------------------
(* The invariant *)

RegInv == Reg!TypeOK /\ Reg!IndexAgrees /\ Reg!OfflineIsEmpty

Types ==
  /\ conn \in [Sids -> {"unused", "connecting", "live", "closing", "gone"}]
  /\ auth \in [Sids -> Users \cup {NoUser}]
  /\ members \in [Rooms -> SUBSET Sids]
  /\ shown \in [Users -> SUBSET Rooms]
  /\ job \in [Threads -> Job]

RoomPcs == {"join_enter", "join_add", "join_announce",
            "leave_remove", "leave_manager", "leave_announce"}
VictimPcs == {"evict", "disc_client", "disc_rooms", "disc_announce", "disc_forget"}

(* A handler has the arguments it is going to use. *)
Equipped(j) ==
  /\ j.pc \in RoomPcs \cup {"register", "accept"} => j.sid \in Sids
  /\ j.pc \in RoomPcs => j.room \in Rooms
  /\ j.pc \in VictimPcs => j.victim \in Sids

AllEquipped == \A t \in Threads : Equipped(job[t])

(* A sid that was not handed out yet is known nowhere. *)
Fresh ==
  \A s \in Sids : conn[s] = "unused" =>
    /\ sidToUser[s] = NoUser
    /\ \A r \in Rooms : s \notin members[r]
    /\ \A t \in Threads : job[t].sid # s

(* A session whose handler is about to call connect() is known nowhere     *)
(* else, and no other handler runs in its name.                            *)
Handshake ==
  \A t \in Threads : job[t].pc = "register" =>
    /\ conn[job[t].sid] # "live"
    /\ auth[job[t].sid] \in Users
    /\ sidToUser[job[t].sid] = NoUser
    /\ \A r \in Rooms : job[t].sid \notin members[r]
    /\ \A o \in Threads \ {t} : job[o].sid # job[t].sid

Denied(s, r) == Reg!ClientOf(s) # NoClient /\ ~Reg!IsInRoom(s, r)

(* A session that receives a room it is denied is in the middle of a join  *)
(* that will enter the room in the registry, or of a leave that will leave *)
(* the server's room.                                                      *)
Settles(j, s, r) == j.sid = s /\ j.room = r /\ j.pc \in {"join_add", "leave_manager"}

Explained ==
  \A s \in Sids, r \in Rooms :
    s \in members[r] /\ Denied(s, r) => \E t \in Threads : Settles(job[t], s, r)

SessInv == Types /\ AllEquipped /\ Fresh /\ Handshake /\ Explained

Inv == RegInv /\ SessInv

-----------------------------------------------------------------------------
(* The registry's lemmas, for the registry of this module                  *)

LEMMA SameRegistry ==
  /\ RP!RegInv <=> RegInv
  /\ RP!regVars = Reg!regVars
  /\ RP!Init <=> Reg!Init
  /\ [RP!Next]_(RP!regVars) <=> [Reg!Next]_(Reg!regVars)
BY DEF RegInv, RP!RegInv, RP!TypeOK, RP!IndexAgrees, RP!OfflineIsEmpty, RP!ClientState,
  Reg!TypeOK, Reg!IndexAgrees, Reg!OfflineIsEmpty, Reg!ClientState,
  RP!regVars, Reg!regVars, RP!Init, Reg!Init, RP!Next, Reg!Next,
  RP!Connect, Reg!Connect, RP!OldSid, Reg!OldSid, RP!Disconnect, Reg!Disconnect,
  RP!Holds, Reg!Holds, RP!AddRoom, Reg!AddRoom, RP!RemoveRoom, Reg!RemoveRoom,
  RP!ClientOf, Reg!ClientOf, RP!Clear, Reg!Clear

LEMMA RegistryInit == Reg!Init => RegInv
BY RP!InitInv, SameRegistry, NullsAreFresh DEF RP!ClientState, Reg!ClientState

LEMMA RegistryKeepsInv == RegInv /\ [Reg!Next]_(Reg!regVars) => RegInv'
<1>1. RP!RegInv' <=> RegInv'
  BY DEF RegInv, RP!RegInv, RP!TypeOK, RP!IndexAgrees, RP!OfflineIsEmpty, RP!ClientState,
    Reg!TypeOK, Reg!IndexAgrees, Reg!OfflineIsEmpty, Reg!ClientState
<1>2. RP!RegInv /\ [RP!Next]_(RP!regVars) => RP!RegInv'
  BY RP!NextInv, NullsAreFresh DEF RP!ClientState, Reg!ClientState
<1>. QED BY <1>1, <1>2, SameRegistry

(* Nothing but connecting a sid and leaving a room denies a room.          *)
LEMMA RegistryDenies ==
  ASSUME RegInv, NEW o \in Sids, NEW q \in Rooms, Denied(o, q)'
  PROVE  /\ \A u \in Users, s \in Sids :
              sidToUser[s] = NoUser /\ Reg!Connect(u, s) /\ o # s => Denied(o, q)
         /\ \A s \in Sids : Reg!Disconnect(s) => Denied(o, q)
         /\ \A s \in Sids, r \in Rooms :
              Reg!AddRoom(s, r) => Denied(o, q) /\ <<o, q>> # <<s, r>>
         /\ \A s \in Sids, r \in Rooms :
              Reg!RemoveRoom(s, r) /\ <<o, q>> # <<s, r>> => Denied(o, q)
         /\ ~Reg!Clear
<1>1. /\ RP!Denied(o, q) <=> Denied(o, q)
      /\ RP!Denied(o, q)'
      /\ RP!RegInv
  BY SameRegistry DEF Denied, RP!Denied, RP!ClientOf, Reg!ClientOf, RP!IsInRoom, Reg!IsInRoom,
    RP!RoomsForSid, Reg!RoomsForSid
<1>2. NoSid \notin Sids /\ NoUser \notin Users /\ NoClient \notin RP!ClientState
  BY NullsAreFresh DEF RP!ClientState, Reg!ClientState
<1>3. ASSUME NEW u \in Users, NEW s \in Sids, sidToUser[s] = NoUser, Reg!Connect(u, s), o # s
      PROVE  Denied(o, q)
  <2>1. RP!Connect(u, s)
    BY <1>3 DEF RP!Connect, Reg!Connect, RP!OldSid, Reg!OldSid
  <2>2. o \in Sids \ {s}
    BY <1>3
  <2>. QED BY <1>1, <1>2, <1>3, <2>1, <2>2, RP!ConnectDenies
<1>4. ASSUME NEW s \in Sids, Reg!Disconnect(s) PROVE Denied(o, q)
  <2>1. RP!Disconnect(s)
    BY <1>4 DEF RP!Disconnect, Reg!Disconnect, RP!Holds, Reg!Holds
  <2>. QED BY <1>1, <1>2, <2>1, RP!DisconnectDenies
<1>5. ASSUME NEW s \in Sids, NEW r \in Rooms, Reg!AddRoom(s, r)
      PROVE  Denied(o, q) /\ <<o, q>> # <<s, r>>
  <2>1. RP!AddRoom(s, r)
    BY <1>5 DEF RP!AddRoom, Reg!AddRoom, RP!ClientOf, Reg!ClientOf
  <2>. QED BY <1>1, <1>2, <2>1, RP!AddRoomDenies
<1>6. ASSUME NEW s \in Sids, NEW r \in Rooms, Reg!RemoveRoom(s, r), <<o, q>> # <<s, r>>
      PROVE  Denied(o, q)
  <2>1. RP!RemoveRoom(s, r)
    BY <1>6 DEF RP!RemoveRoom, Reg!RemoveRoom, RP!ClientOf, Reg!ClientOf
  <2>. QED BY <1>1, <1>2, <1>6, <2>1, RP!RemoveRoomDenies
<1>7. ~Reg!Clear
  BY DEF Reg!Clear, Denied, Reg!ClientOf
<1>. QED BY <1>3, <1>4, <1>5, <1>6, <1>7

(* Registry operations other than connect() register no sid.               *)
LEMMA RegistryForgets ==
  ASSUME RegInv, NEW o \in Sids
  PROVE  /\ \A u \in Users, s \in Sids \ {o} :
              Reg!Connect(u, s) => sidToUser'[o] \in {sidToUser[o], NoUser}
         /\ \A s \in Sids : Reg!Disconnect(s) => sidToUser'[o] \in {sidToUser[o], NoUser}
         /\ Reg!Clear => sidToUser'[o] = NoUser
BY DEF RegInv, Reg!TypeOK, Reg!Connect, Reg!Disconnect, Reg!Clear

-----------------------------------------------------------------------------
(* What the steps do to the jobs *)

Moved(t) == /\ job' \in [Threads -> Job]
            /\ \A o \in Threads \ {t} : job'[o] = job[o]

LEMMA IdleJob ==
  /\ Idle \in Job
  /\ Idle.pc = "idle" /\ Idle.sid = NoSid /\ Idle.room = NoRoom
  /\ Idle.victim = NoSid /\ Idle.todo = {} /\ Idle.stopping = FALSE
  /\ Equipped(Idle)
BY DEF Idle, Job, Pcs, Equipped, RoomPcs, VictimPcs

LEMMA GotoJob ==
  ASSUME Types, NEW t \in Threads, NEW label \in Pcs, Goto(t, label)
  PROVE  /\ Moved(t)
         /\ job'[t].pc = label
         /\ job'[t].sid = job[t].sid /\ job'[t].room = job[t].room
         /\ job'[t].victim = job[t].victim
         /\ job'[t].todo = job[t].todo /\ job'[t].stopping = job[t].stopping
BY DEF Types, Goto, Moved, Job

LEMMA FinishJob ==
  ASSUME Types, NEW t \in Threads, Finish(t)
  PROVE  Moved(t) /\ job'[t] = Idle
BY IdleJob DEF Types, Finish, Moved

LEMMA StartJob ==
  ASSUME Types, NEW t \in Threads, NEW j \in Job, Start(t, j)
  PROVE  Moved(t) /\ job'[t] = j /\ job[t] = Idle
BY DEF Types, Start, IsIdle, Moved

LEMMA ReturnJob ==
  ASSUME Types, NEW t \in Threads, AfterDisconnect(t)
  PROVE  /\ Moved(t)
         /\ job'[t].pc \in {"accept", "next_victim", "idle"}
         /\ job'[t].sid = job[t].sid /\ job'[t].victim = NoSid
         /\ job'[t].todo \subseteq job[t].todo
         /\ job'[t].stopping \/ job'[t].pc = "next_victim" => job[t].stopping
         /\ Equipped(job'[t])
<1> DEFINE a == [Idle EXCEPT !.pc = "accept", !.sid = job[t].sid]
           n == [Idle EXCEPT !.pc = "next_victim", !.todo = job[t].todo, !.stopping = TRUE]
<1>1. job[t] \in Job
  BY DEF Types
<1>2. /\ a \in Job /\ a.pc = "accept" /\ a.sid = job[t].sid
      /\ a.victim = NoSid /\ a.todo = {} /\ ~a.stopping
  BY <1>1 DEF Idle, Job, Pcs
<1>3. /\ n \in Job /\ n.pc = "next_victim" /\ n.sid = NoSid
      /\ n.victim = NoSid /\ n.todo = job[t].todo
  BY <1>1 DEF Idle, Job, Pcs
<1>4. job[t].sid \in Sids \cup {NoSid}
  BY <1>1 DEF Job
<1> HIDE DEF a, n
<1>5. CASE job[t].sid # NoSid
  <2>1. job' = [job EXCEPT ![t] = a]
    BY <1>5 DEF AfterDisconnect, a
  <2>. QED BY <1>2, <1>4, <1>5, <2>1 DEF Types, Moved, Equipped, RoomPcs, VictimPcs
<1>6. CASE job[t].sid = NoSid /\ job[t].stopping
  <2>1. job' = [job EXCEPT ![t] = n]
    BY <1>6 DEF AfterDisconnect, n
  <2>. QED BY <1>3, <1>6, <2>1 DEF Types, Moved, Equipped, RoomPcs, VictimPcs
<1>7. CASE job[t].sid = NoSid /\ ~job[t].stopping
  <2>1. job' = [job EXCEPT ![t] = Idle]
    BY <1>7 DEF AfterDisconnect
  <2>. QED BY <1>7, <2>1, IdleJob DEF Types, Moved
<1>. QED BY <1>5, <1>6, <1>7

LEMMA EquippedStep ==
  ASSUME AllEquipped, NEW t \in Threads, Moved(t), Equipped(job'[t])
  PROVE  AllEquipped'
BY DEF AllEquipped, Moved, Equipped

-----------------------------------------------------------------------------
(* Steps that bring no session into a room and register none: they may     *)
(* take rooms and registrations away, and end a handler.                   *)

LEMMA CalmStep ==
  ASSUME Inv, NEW t \in Threads, Moved(t),
         job'[t].sid \in {job[t].sid, NoSid},
         job'[t].pc # "register",
         job[t].pc \notin {"join_add", "leave_manager"},
         auth' = auth,
         \A s \in Sids : /\ conn'[s] = "unused" => conn[s] = "unused"
                         /\ conn'[s] = "live" => conn[s] = "live" \/ s = job[t].sid
                         /\ sidToUser'[s] \in {sidToUser[s], NoUser},
         \A r \in Rooms : members'[r] \subseteq members[r],
         \A s \in Sids, r \in Rooms : Denied(s, r)' => Denied(s, r)
  PROVE  Fresh' /\ Handshake' /\ Explained'
<1>1. \A o \in Threads : o # t => job'[o] = job[o]
  BY DEF Moved
<1>2. Fresh'
  <2> SUFFICES ASSUME NEW s \in Sids, conn'[s] = "unused"
               PROVE  /\ sidToUser'[s] = NoUser
                      /\ \A r \in Rooms : s \notin members'[r]
                      /\ \A o \in Threads : job'[o].sid # s
    BY DEF Fresh
  <2>1. /\ sidToUser[s] = NoUser
        /\ \A r \in Rooms : s \notin members[r]
        /\ \A o \in Threads : job[o].sid # s
    BY DEF Inv, SessInv, Fresh
  <2>. QED BY <1>1, <2>1, NullsAreFresh
<1>3. Handshake'
  <2> SUFFICES ASSUME NEW o \in Threads, job'[o].pc = "register"
               PROVE  /\ conn'[job'[o].sid] # "live"
                      /\ auth'[job'[o].sid] \in Users
                      /\ sidToUser'[job'[o].sid] = NoUser
                      /\ \A r \in Rooms : job'[o].sid \notin members'[r]
                      /\ \A p \in Threads \ {o} : job'[p].sid # job'[o].sid
    BY DEF Handshake
  <2>1. o # t /\ job'[o] = job[o]
    BY <1>1
  <2>2. job[o].sid \in Sids
    BY <2>1 DEF Inv, SessInv, AllEquipped, Equipped
  <2>3. /\ conn[job[o].sid] # "live"
        /\ auth[job[o].sid] \in Users
        /\ sidToUser[job[o].sid] = NoUser
        /\ \A r \in Rooms : job[o].sid \notin members[r]
        /\ \A p \in Threads \ {o} : job[p].sid # job[o].sid
    BY <2>1 DEF Inv, SessInv, Handshake
  <2>. QED BY <1>1, <2>1, <2>2, <2>3, NullsAreFresh
<1>4. Explained'
  <2> SUFFICES ASSUME NEW s \in Sids, NEW r \in Rooms, s \in members'[r], Denied(s, r)'
               PROVE  \E o \in Threads : Settles(job'[o], s, r)
    BY DEF Explained, Settles
  <2>1. PICK o \in Threads : Settles(job[o], s, r)
    BY DEF Inv, SessInv, Explained
  <2>2. o # t
    BY <2>1 DEF Settles
  <2>. QED BY <1>1, <2>1, <2>2
<1>. QED BY <1>2, <1>3, <1>4

(* ... and those of them that only move on inside a handler.               *)
LEMMA RoutineStep ==
  ASSUME Inv, NEW t \in Threads, Moved(t), Equipped(job'[t]),
         job'[t].sid \in {job[t].sid, NoSid},
         job'[t].pc # "register",
         job[t].pc \notin {"join_add", "leave_manager"},
         UNCHANGED <<users, sidToUser, conn, auth, members>>,
         shown' \in [Users -> SUBSET Rooms]
  PROVE  SessInv'
<1>1. \A s \in Sids, r \in Rooms : Denied(s, r)' => Denied(s, r)
  BY DEF Denied, Reg!ClientOf, Reg!IsInRoom, Reg!RoomsForSid
<1>2. Fresh' /\ Handshake' /\ Explained'
  BY <1>1, CalmStep
<1>3. AllEquipped'
  BY EquippedStep DEF Inv, SessInv
<1>4. Types'
  BY DEF Inv, SessInv, Types, Moved
<1>. QED BY <1>2, <1>3, <1>4 DEF SessInv

-----------------------------------------------------------------------------
(* Every step is a step of the registry's specification, or none.          *)

LEMMA RegistryStep ==
  ASSUME Inv, NEW t \in Threads, Begin(t) \/ Step(t)
  PROVE  [Reg!Next]_(Reg!regVars)
<1>1. AllEquipped /\ Handshake
  BY DEF Inv, SessInv
<1>2. CASE Register(t)
  <2>1. At(t, "register") /\ Reg!Connect(auth[job[t].sid], job[t].sid)
    BY <1>2 DEF Register
  <2>2. /\ job[t].sid \in Sids
        /\ auth[job[t].sid] \in Users
        /\ sidToUser[job[t].sid] = NoUser
    BY <1>1, <2>1 DEF AllEquipped, Equipped, Handshake, At
  <2>. QED BY <2>1, <2>2 DEF Reg!Next
<1>3. CASE DiscUnregister(t)
  <2>1. job[t].victim \in Sids /\ Reg!Disconnect(job[t].victim)
    BY <1>1, <1>3 DEF DiscUnregister, At, AllEquipped, Equipped, VictimPcs
  <2>. QED BY <2>1 DEF Reg!Next
<1>4. CASE JoinAdd(t)
  <2>1. job[t].sid \in Sids /\ job[t].room \in Rooms /\ Reg!AddRoom(job[t].sid, job[t].room)
    BY <1>1, <1>4 DEF JoinAdd, At, AllEquipped, Equipped, RoomPcs
  <2>. QED BY <2>1 DEF Reg!Next
<1>5. CASE LeaveRemove(t)
  <2>1. job[t].sid \in Sids /\ job[t].room \in Rooms /\ Reg!RemoveRoom(job[t].sid, job[t].room)
    BY <1>1, <1>5 DEF LeaveRemove, At, AllEquipped, Equipped, RoomPcs
  <2>. QED BY <2>1 DEF Reg!Next
<1>6. CASE ShutdownClear(t)
  BY <1>6 DEF ShutdownClear, Reg!Next
<1>7. CASE Begin(t) \/ Accept(t) \/ Evict(t) \/ EvictError(t) \/ DiscClient(t) \/ DiscRooms(t)
           \/ DiscAnnounce(t) \/ DiscForget(t) \/ JoinEnter(t) \/ JoinAnnounce(t)
           \/ LeaveManager(t) \/ LeaveAnnounce(t) \/ ShutdownNext(t)
  BY <1>7 DEF Begin, Lose, ConnectBegin, JoinBegin, LeaveBegin, ShutdownBegin, Accept, Evict,
    EvictError, DiscClient, DiscRooms, DiscAnnounce, DiscForget, JoinEnter, JoinAnnounce,
    LeaveManager, LeaveAnnounce, ShutdownNext, Reg!regVars
<1>. QED BY <1>2, <1>3, <1>4, <1>5, <1>6, <1>7 DEF Step

-----------------------------------------------------------------------------
(* One lemma per action, or per group of actions with one argument.        *)

(* handle_connect *)

LEMMA ConnectBeginInv ==
  ASSUME Inv, NEW t \in Threads, NEW u \in Users, NEW s \in Sids, ConnectBegin(t, u, s)
  PROVE  SessInv'
<1> DEFINE j == [Idle EXCEPT !.pc = "register", !.sid = s]
<1>1. j \in Job /\ j.pc = "register" /\ j.sid = s
  BY DEF Idle, Job, Pcs
<1> HIDE DEF j
<1>2. Moved(t) /\ job'[t] = j /\ job[t] = Idle
  BY <1>1, StartJob DEF ConnectBegin, Inv, SessInv, j
<1>3. Types'
  BY <1>2 DEF Inv, SessInv, Types, Moved, ConnectBegin
<1>4. AllEquipped'
  BY <1>1, <1>2, EquippedStep DEF Inv, SessInv, Equipped, RoomPcs, VictimPcs
<1>5. /\ conn[s] = "unused" /\ conn'[s] = "connecting" /\ auth'[s] = u
      /\ \A o \in Sids \ {s} : conn'[o] = conn[o] /\ auth'[o] = auth[o]
      /\ UNCHANGED <<users, sidToUser, members>>
  BY DEF ConnectBegin, Inv, SessInv, Types
<1>6. /\ sidToUser[s] = NoUser
      /\ \A r \in Rooms : s \notin members[r]
      /\ \A o \in Threads : job[o].sid # s
  BY <1>5 DEF Inv, SessInv, Fresh
<1>7. \A o \in Threads \ {t} : job'[o] = job[o]
  BY <1>2 DEF Moved
<1>8. Fresh'
  BY <1>1, <1>2, <1>5, <1>7 DEF Inv, SessInv, Fresh
<1>9. Handshake'
  <2>1. ASSUME NEW o \in Threads \ {t}, job'[o].pc = "register"
        PROVE  /\ conn'[job'[o].sid] # "live" /\ auth'[job'[o].sid] \in Users
               /\ sidToUser'[job'[o].sid] = NoUser
               /\ \A r \in Rooms : job'[o].sid \notin members'[r]
               /\ \A p \in Threads \ {o} : job'[p].sid # job'[o].sid
    <3>1. job'[o] = job[o] /\ job[o].sid \in Sids \ {s}
      BY <1>6, <1>7, <2>1 DEF Inv, SessInv, AllEquipped, Equipped
    <3>. QED BY <1>1, <1>2, <1>5, <1>7, <2>1, <3>1 DEF Inv, SessInv, Handshake
  <2>2. /\ conn'[job'[t].sid] # "live" /\ auth'[job'[t].sid] \in Users
        /\ sidToUser'[job'[t].sid] = NoUser
        /\ \A r \in Rooms : job'[t].sid \notin members'[r]
        /\ \A p \in Threads \ {t} : job'[p].sid # job'[t].sid
    BY <1>1, <1>2, <1>5, <1>6, <1>7
  <2>. QED BY <2>1, <2>2 DEF Handshake
<1>10. Explained'
  <2>1. \A z \in Sids, r \in Rooms : Denied(z, r)' => Denied(z, r)
    BY <1>5 DEF Denied, Reg!ClientOf, Reg!IsInRoom, Reg!RoomsForSid
  <2>2. \A z \in Sids, r \in Rooms : ~Settles(job[t], z, r)
    BY <1>2, IdleJob DEF Settles
  <2>. QED BY <1>5, <1>7, <2>1, <2>2 DEF Inv, SessInv, Explained, Settles
<1>. QED BY <1>3, <1>4, <1>8, <1>9, <1>10 DEF SessInv

LEMMA RegisterInv ==
  ASSUME Inv, NEW t \in Threads, Register(t)
  PROVE  SessInv'
<1> DEFINE s == job[t].sid
           u == auth[s]
<1>1. job[t].pc = "register" /\ Reg!Connect(u, s) /\ UNCHANGED <<conn, auth, members, shown>>
  BY DEF Register, At, serverVars
<1>2. /\ s \in Sids /\ u \in Users /\ sidToUser[s] = NoUser
      /\ \A r \in Rooms : s \notin members[r]
      /\ \A o \in Threads \ {t} : job[o].sid # s
  BY <1>1 DEF Inv, SessInv, AllEquipped, Equipped, Handshake
<1>3. /\ Moved(t) /\ job'[t].sid = s /\ job'[t].pc \in {"evict", "accept"}
      /\ Equipped(job'[t])
  <2>1. CASE Goto(t, "accept")
    BY <1>2, <2>1, GotoJob DEF Inv, SessInv, Pcs, Equipped, RoomPcs, VictimPcs
  <2>2. CASE Reg!OldSid(u) # NoSid
             /\ job' = [job EXCEPT ![t].pc = "evict", ![t].victim = Reg!OldSid(u)]
    <3>1. Reg!OldSid(u) \in Sids
      BY <1>2, <2>2 DEF Inv, RegInv, Reg!TypeOK, Reg!OldSid, Reg!ClientState
    <3> DEFINE j == [job[t] EXCEPT !.pc = "evict", !.victim = Reg!OldSid(u)]
    <3>2. job' = [job EXCEPT ![t] = j]
      BY <2>2
    <3>3. j \in Job /\ j.pc = "evict" /\ j.sid = s /\ j.victim \in Sids
      BY <3>1 DEF Inv, SessInv, Types, Job, Pcs
    <3> HIDE DEF j
    <3>4. Moved(t) /\ job'[t] = j
      BY <3>2, <3>3 DEF Inv, SessInv, Types, Moved
    <3>. QED BY <3>3, <3>4 DEF Equipped, RoomPcs, VictimPcs
  <2>. QED BY <2>1, <2>2 DEF Register
<1>4. \A o \in Threads \ {t} : job'[o] = job[o]
  BY <1>3 DEF Moved
<1>5. \A z \in Sids \ {s} : sidToUser'[z] \in {sidToUser[z], NoUser}
  BY <1>1, <1>2, RegistryForgets DEF Inv
<1>6. Types'
  BY <1>1, <1>3 DEF Inv, SessInv, Types, Moved
<1>7. AllEquipped'
  BY <1>3, EquippedStep DEF Inv, SessInv
<1>8. Fresh'
  BY <1>1, <1>3, <1>4, <1>5 DEF Inv, SessInv, Fresh
<1>9. Handshake'
  <2> SUFFICES ASSUME NEW o \in Threads \ {t}, job'[o].pc = "register"
               PROVE  /\ conn'[job'[o].sid] # "live" /\ auth'[job'[o].sid] \in Users
                      /\ sidToUser'[job'[o].sid] = NoUser
                      /\ \A r \in Rooms : job'[o].sid \notin members'[r]
                      /\ \A p \in Threads \ {o} : job'[p].sid # job'[o].sid
    BY <1>3 DEF Handshake
  <2>1. job'[o] = job[o] /\ job[o].sid \in Sids \ {s}
    BY <1>2, <1>4 DEF Inv, SessInv, AllEquipped, Equipped
  <2>. QED BY <1>1, <1>3, <1>4, <1>5, <2>1 DEF Inv, SessInv, Handshake
<1>10. Explained'
  <2> SUFFICES ASSUME NEW z \in Sids, NEW r \in Rooms, z \in members'[r], Denied(z, r)'
               PROVE  \E o \in Threads : Settles(job'[o], z, r)
    BY DEF Explained, Settles
  <2>1. z # s
    BY <1>1, <1>2
  <2>2. Denied(z, r)
    BY <1>1, <1>2, <2>1, RegistryDenies DEF Inv
  <2>3. PICK o \in Threads : Settles(job[o], z, r)
    BY <1>1, <2>2 DEF Inv, SessInv, Explained
  <2>. QED BY <1>1, <1>4, <2>3 DEF Settles
<1>. QED BY <1>6, <1>7, <1>8, <1>9, <1>10 DEF SessInv

(* The server's part of a session's life: no room and no registration is   *)
(* added, and no session becomes unused.                                   *)
LEMMA ServerInv ==
  ASSUME Inv, NEW t \in Threads,
         Accept(t) \/ Evict(t) \/ DiscForget(t) \/ (\E s \in Sids : Lose(t, s))
  PROVE  SessInv'
<1>1. /\ Moved(t) /\ Equipped(job'[t])
      /\ job'[t].sid \in {job[t].sid, NoSid}
      /\ job'[t].pc # "register"
      /\ job[t].pc \notin {"join_add", "leave_manager"}
  <2> USE DEF Inv, SessInv
  <2>1. CASE Accept(t)
    BY <2>1, FinishJob, IdleJob DEF Accept, At
  <2>2. CASE Evict(t) /\ Goto(t, "disc_client")
    BY <2>2, GotoJob DEF Evict, At, Pcs, AllEquipped, Equipped, RoomPcs, VictimPcs
  <2>3. CASE (Evict(t) \/ DiscForget(t)) /\ AfterDisconnect(t)
    BY <2>3, ReturnJob DEF Evict, DiscForget, At
  <2>4. ASSUME NEW s \in Sids, Lose(t, s)
        PROVE  /\ Moved(t) /\ Equipped(job'[t])
               /\ job'[t].sid \in {job[t].sid, NoSid}
               /\ job'[t].pc # "register"
               /\ job[t].pc \notin {"join_add", "leave_manager"}
    <3> DEFINE j == [Idle EXCEPT !.pc = "disc_client", !.victim = s]
    <3>1. j \in Job /\ j.pc = "disc_client" /\ j.sid = NoSid /\ j.victim = s
      BY DEF Idle, Job, Pcs
    <3> HIDE DEF j
    <3>2. Moved(t) /\ job'[t] = j /\ job[t] = Idle
      BY <2>4, <3>1, StartJob DEF Lose, j
    <3>. QED BY <3>1, <3>2, IdleJob DEF Equipped, RoomPcs, VictimPcs
  <2>. QED BY <2>1, <2>2, <2>3, <2>4 DEF Evict, DiscForget
<1>2. /\ conn' \in [Sids -> {"unused", "connecting", "live", "closing", "gone"}]
      /\ \A s \in Sids : /\ conn'[s] = "unused" => conn[s] = "unused"
                         /\ conn'[s] = "live" => conn[s] = "live" \/ s = job[t].sid
      /\ members' \in [Rooms -> SUBSET Sids]
      /\ \A r \in Rooms : members'[r] \subseteq members[r]
      /\ UNCHANGED <<users, sidToUser, auth, shown>>
  <2> USE DEF Inv, SessInv, Types
  <2>1. CASE Accept(t)
    BY <2>1 DEF Accept
  <2>2. CASE Evict(t)
    BY <2>2 DEF Evict, BeginClose
  <2>3. CASE DiscForget(t)
    BY <2>3 DEF DiscForget, Forget
  <2>4. ASSUME NEW s \in Sids, Lose(t, s)
        PROVE  /\ conn' = [conn EXCEPT ![s] = "closing"]
               /\ UNCHANGED <<users, sidToUser, auth, members, shown>>
    BY <2>4 DEF Lose, BeginClose
  <2>. QED BY <2>1, <2>2, <2>3, <2>4
<1>3. \A s \in Sids, r \in Rooms : Denied(s, r)' => Denied(s, r)
  BY <1>2 DEF Denied, Reg!ClientOf, Reg!IsInRoom, Reg!RoomsForSid
<1>4. Fresh' /\ Handshake' /\ Explained'
  BY <1>1, <1>2, <1>3, CalmStep
<1>5. AllEquipped'
  BY <1>1, EquippedStep DEF Inv, SessInv
<1>6. Types'
  BY <1>1, <1>2 DEF Inv, SessInv, Types, Moved
<1>. QED BY <1>4, <1>5, <1>6 DEF SessInv

(* handle_disconnect, the announcements and the shutdown loop              *)

LEMMA DisconnectStepInv ==
  ASSUME Inv, NEW t \in Threads,
         DiscClient(t) \/ DiscRooms(t) \/ DiscAnnounce(t) \/ EvictError(t)
  PROVE  SessInv'
<1> USE DEF Inv, SessInv
<1>1. CASE EvictError(t)
  BY <1>1, ReturnJob, RoutineStep DEF EvictError, At, serverVars, Types
<1>2. ASSUME NEW label \in {"disc_rooms", "disc_announce"}, NEW k \in BOOLEAN,
             NEW R \in SUBSET Rooms, job[t].pc \in VictimPcs,
             job' = [job EXCEPT ![t].pc = label, ![t].known = k, ![t].rooms = R],
             UNCHANGED <<users, sidToUser, conn, auth, members>>,
             shown' \in [Users -> SUBSET Rooms]
      PROVE  SessInv'
  <2> DEFINE j == [job[t] EXCEPT !.pc = label, !.known = k, !.rooms = R]
  <2>1. /\ j \in Job /\ j.pc = label /\ j.sid = job[t].sid /\ j.victim = job[t].victim
        /\ job' = [job EXCEPT ![t] = j]
    BY <1>2 DEF Types, Job, Pcs
  <2> HIDE DEF j
  <2>2. Moved(t) /\ job'[t] = j
    BY <2>1 DEF Types, Moved
  <2>. QED BY <1>2, <2>1, <2>2, RoutineStep DEF AllEquipped, Equipped, RoomPcs, VictimPcs
<1>3. job[t] = [job[t] EXCEPT !.rooms = job[t].rooms]
      /\ job[t].rooms \in SUBSET Rooms /\ job[t].known \in BOOLEAN
  BY DEF Types, Job
<1>4. CASE DiscClient(t)
  <2> DEFINE k == Reg!ClientOf(job[t].victim) # NoClient
  <2>1. /\ job[t].pc = "disc_client"
        /\ job' = [job EXCEPT ![t].pc = "disc_rooms", ![t].known = k]
        /\ UNCHANGED <<users, sidToUser, conn, auth, members, shown>>
    BY <1>4 DEF DiscClient, At, serverVars
  <2>2. job' = [job EXCEPT ![t].pc = "disc_rooms", ![t].known = k, ![t].rooms = job[t].rooms]
    BY <2>1 DEF Types, Job
  <2>3. k \in BOOLEAN
    OBVIOUS
  <2> HIDE DEF k
  <2>. QED BY <1>2, <1>3, <2>1, <2>2, <2>3 DEF Types, VictimPcs
<1>5. CASE DiscRooms(t)
  <2> DEFINE R == IF job[t].known THEN Reg!RoomsForSid(job[t].victim) ELSE {}
  <2>1. /\ job[t].pc = "disc_rooms"
        /\ job' = [job EXCEPT ![t].pc = "disc_announce", ![t].rooms = R]
        /\ UNCHANGED <<users, sidToUser, conn, auth, members, shown>>
    BY <1>5 DEF DiscRooms, At, serverVars
  <2>2. R \in SUBSET Rooms
    <3>1. job[t].victim \in Sids
      BY <2>1 DEF AllEquipped, Equipped, VictimPcs
    <3>. QED BY <3>1 DEF RegInv, Reg!TypeOK, Reg!RoomsForSid, Reg!ClientOf, Reg!ClientState
  <2> HIDE DEF R
  <2>3. job' = [job EXCEPT ![t].pc = "disc_announce", ![t].known = job[t].known, ![t].rooms = R]
    BY <2>1 DEF Types, Job
  <2>. QED BY <1>2, <1>3, <2>1, <2>2, <2>3 DEF Types, VictimPcs
<1>6. CASE DiscAnnounce(t)
  <2>1. PICK r \in job[t].rooms :
          /\ shown' = [shown EXCEPT ![auth[job[t].victim]] = @ \ {r}]
          /\ job' = [job EXCEPT ![t].rooms = @ \ {r}]
    BY <1>6 DEF DiscAnnounce
  <2>2. job[t].pc = "disc_announce" /\ UNCHANGED <<users, sidToUser, conn, auth, members>>
    BY <1>6 DEF DiscAnnounce, At, serverVars
  <2>3. shown' \in [Users -> SUBSET Rooms]
    BY <2>1 DEF Types
  <2>4. job' = [job EXCEPT ![t].pc = "disc_announce", ![t].known = job[t].known,
                           ![t].rooms = job[t].rooms \ {r}]
    BY <2>1, <2>2 DEF Types, Job
  <2>5. job[t].rooms \ {r} \in SUBSET Rooms /\ job[t].pc \in VictimPcs
    BY <1>3, <2>2 DEF VictimPcs
  <2> DEFINE R == job[t].rooms \ {r}
             k == job[t].known
  <2>6. /\ R \in SUBSET Rooms /\ k \in BOOLEAN
        /\ job' = [job EXCEPT ![t].pc = "disc_announce", ![t].known = k, ![t].rooms = R]
    BY <1>3, <2>4, <2>5
  <2> HIDE DEF R, k
  <2>. QED BY <1>2, <2>2, <2>3, <2>5, <2>6
<1>. QED BY <1>1, <1>4, <1>5, <1>6

LEMMA AnnounceInv ==
  ASSUME Inv, NEW t \in Threads, JoinAnnounce(t) \/ LeaveAnnounce(t)
  PROVE  SessInv'
<1> USE DEF Inv, SessInv
<1>1. /\ job[t].pc \in {"join_announce", "leave_announce"} /\ Finish(t)
      /\ UNCHANGED <<users, sidToUser, conn, auth, members>>
  BY DEF JoinAnnounce, LeaveAnnounce, At, serverVars
<1>2. job[t].room \in Rooms
  BY <1>1 DEF AllEquipped, Equipped, RoomPcs
<1>3. shown' \in [Users -> SUBSET Rooms]
  BY <1>2 DEF JoinAnnounce, LeaveAnnounce, Types
<1>. QED BY <1>1, <1>3, FinishJob, IdleJob, RoutineStep

LEMMA ShutdownStepInv ==
  ASSUME Inv, NEW t \in Threads, ShutdownBegin(t) \/ ShutdownNext(t)
  PROVE  SessInv'
<1> USE DEF Inv, SessInv
<1>1. CASE ShutdownBegin(t)
  <2> DEFINE j == [Idle EXCEPT !.pc = "next_victim", !.todo = Reg!ActiveSids, !.stopping = TRUE]
  <2>1. Reg!ActiveSids \subseteq Sids
    BY DEF RegInv, Reg!TypeOK, Reg!ActiveSids, Reg!IsConnected, Reg!ClientState
  <2>2. j \in Job /\ j.pc = "next_victim" /\ j.sid = NoSid
    BY <2>1 DEF Idle, Job, Pcs
  <2>3. Start(t, j)
    BY <1>1 DEF ShutdownBegin
  <2> HIDE DEF j
  <2>4. Moved(t) /\ job'[t] = j /\ job[t] = Idle
    BY <2>2, <2>3, StartJob
  <2>. QED BY <1>1, <2>2, <2>4, IdleJob, RoutineStep
    DEF ShutdownBegin, serverVars, Types, Equipped, RoomPcs, VictimPcs
<1>2. CASE ShutdownNext(t)
  <2>1. PICK v \in job[t].todo :
          job' = [job EXCEPT ![t].pc = "evict", ![t].victim = v, ![t].todo = @ \ {v}]
    BY <1>2 DEF ShutdownNext
  <2> DEFINE j == [job[t] EXCEPT !.pc = "evict", !.victim = v, !.todo = @ \ {v}]
  <2>2. v \in Sids
    BY DEF Types, Job
  <2>3. j \in Job /\ j.pc = "evict" /\ j.sid = job[t].sid /\ j.victim = v
    BY <2>2 DEF Types, Job, Pcs
  <2>4. job' = [job EXCEPT ![t] = j]
    BY <2>1
  <2> HIDE DEF j
  <2>5. Moved(t) /\ job'[t] = j
    BY <2>3, <2>4 DEF Types, Moved
  <2>. QED BY <1>2, <2>2, <2>3, <2>5, RoutineStep
    DEF ShutdownNext, At, serverVars, Types, Equipped, RoomPcs, VictimPcs
<1>. QED BY <1>1, <1>2

(* registry.disconnect and registry.clear                                  *)
LEMMA UnregisterInv ==
  ASSUME Inv, NEW t \in Threads, DiscUnregister(t) \/ ShutdownClear(t)
  PROVE  SessInv'
<1> USE DEF Inv, SessInv
<1>1. /\ Moved(t) /\ Equipped(job'[t])
      /\ job'[t].sid \in {job[t].sid, NoSid}
      /\ job'[t].pc # "register"
      /\ job[t].pc \notin {"join_add", "leave_manager"}
  <2>1. CASE DiscUnregister(t)
    BY <2>1, GotoJob DEF DiscUnregister, At, Pcs, AllEquipped, Equipped, RoomPcs, VictimPcs
  <2>2. CASE ShutdownClear(t)
    BY <2>2, FinishJob, IdleJob DEF ShutdownClear, At
  <2>. QED BY <2>1, <2>2
<1>2. UNCHANGED <<conn, auth, members, shown>>
  BY DEF DiscUnregister, ShutdownClear, serverVars
<1>3. Reg!Clear \/ \E v \in Sids : Reg!Disconnect(v)
  BY DEF DiscUnregister, ShutdownClear, At, AllEquipped, Equipped, VictimPcs
<1>4. \A s \in Sids : sidToUser'[s] \in {sidToUser[s], NoUser}
  BY <1>3, RegistryForgets
<1>5. \A s \in Sids, r \in Rooms : Denied(s, r)' => Denied(s, r)
  BY <1>3, RegistryDenies
<1>6. Fresh' /\ Handshake' /\ Explained'
  BY <1>1, <1>2, <1>4, <1>5, CalmStep
<1>7. AllEquipped'
  BY <1>1, EquippedStep
<1>8. Types'
  BY <1>1, <1>2 DEF Types, Moved
<1>. QED BY <1>6, <1>7, <1>8

-----------------------------------------------------------------------------
(* handle_join_room and handle_leave_room *)

LEMMA RoomBeginInv ==
  ASSUME Inv, NEW t \in Threads, NEW s \in Sids, NEW r \in Rooms,
         JoinBegin(t, s, r) \/ LeaveBegin(t, s, r)
  PROVE  SessInv'
<1> USE DEF Inv, SessInv
<1>1. PICK label \in {"join_enter", "leave_remove"} :
        Start(t, [Idle EXCEPT !.pc = label, !.sid = s, !.room = r])
  BY DEF JoinBegin, LeaveBegin
<1> DEFINE j == [Idle EXCEPT !.pc = label, !.sid = s, !.room = r]
<1>2. j \in Job /\ j.pc = label /\ j.sid = s /\ j.room = r
  BY DEF Idle, Job, Pcs
<1> HIDE DEF j
<1>3. Moved(t) /\ job'[t] = j /\ job[t] = Idle
  BY <1>1, <1>2, StartJob DEF j
<1>4. conn[s] = "live" /\ UNCHANGED <<users, sidToUser, conn, auth, members, shown>>
  BY DEF JoinBegin, LeaveBegin, Admitted, serverVars
<1>5. \A o \in Threads \ {t} : job'[o] = job[o]
  BY <1>3 DEF Moved
<1>6. Types'
  BY <1>3, <1>4 DEF Types, Moved
<1>7. AllEquipped'
  BY <1>2, <1>3, EquippedStep DEF Equipped, RoomPcs, VictimPcs
<1>8. Fresh'
  BY <1>2, <1>3, <1>4, <1>5 DEF Fresh
<1>9. Handshake'
  BY <1>2, <1>3, <1>4, <1>5 DEF Handshake
<1>10. Explained'
  <2>1. \A z \in Sids, q \in Rooms : ~Settles(job[t], z, q)
    BY <1>3, IdleJob DEF Settles
  <2>2. \A z \in Sids, q \in Rooms : Denied(z, q)' => Denied(z, q)
    BY <1>4 DEF Denied, Reg!ClientOf, Reg!IsInRoom, Reg!RoomsForSid
  <2>. QED BY <1>4, <1>5, <2>1, <2>2 DEF Explained, Settles
<1>. QED BY <1>6, <1>7, <1>8, <1>9, <1>10

(* A step inside a join or leave moves the handler on, and keeps the       *)
(* server's sessions; what is left to show is Explained.                   *)
LEMMA RoomStepInv ==
  ASSUME Inv, NEW t \in Threads, Moved(t), Equipped(job'[t]),
         job[t].pc \in RoomPcs,
         job'[t].sid \in {job[t].sid, NoSid},
         job'[t].pc # "register",
         UNCHANGED <<sidToUser, conn, auth, shown>>,
         members' \in [Rooms -> SUBSET Sids],
         \A r \in Rooms : members'[r] \subseteq members[r] \cup {job[t].sid},
         Explained'
  PROVE  SessInv'
<1> USE DEF Inv, SessInv
<1>1. job[t].sid \in Sids
  BY DEF AllEquipped, Equipped
<1>2. \A o \in Threads \ {t} : job'[o] = job[o]
  BY DEF Moved
<1>3. Types'
  BY DEF Types, Moved
<1>4. AllEquipped'
  BY EquippedStep
<1>5. Fresh'
  <2> SUFFICES ASSUME NEW s \in Sids, conn'[s] = "unused"
               PROVE  /\ sidToUser'[s] = NoUser
                      /\ \A r \in Rooms : s \notin members'[r]
                      /\ \A o \in Threads : job'[o].sid # s
    BY DEF Fresh
  <2>1. /\ sidToUser[s] = NoUser
        /\ \A r \in Rooms : s \notin members[r]
        /\ \A o \in Threads : job[o].sid # s
    BY DEF Fresh
  <2>. QED BY <1>2, <2>1, NullsAreFresh
<1>6. Handshake'
  <2> SUFFICES ASSUME NEW o \in Threads \ {t}, job'[o].pc = "register"
               PROVE  /\ conn'[job'[o].sid] # "live" /\ auth'[job'[o].sid] \in Users
                      /\ sidToUser'[job'[o].sid] = NoUser
                      /\ \A r \in Rooms : job'[o].sid \notin members'[r]
                      /\ \A p \in Threads \ {o} : job'[p].sid # job'[o].sid
    BY DEF Handshake
  <2>1. job'[o] = job[o] /\ job[o].sid \in Sids
    BY <1>2 DEF AllEquipped, Equipped
  <2>2. /\ conn[job[o].sid] # "live" /\ auth[job[o].sid] \in Users
        /\ sidToUser[job[o].sid] = NoUser
        /\ \A r \in Rooms : job[o].sid \notin members[r]
        /\ \A p \in Threads \ {o} : job[p].sid # job[o].sid
    BY <2>1 DEF Handshake
  <2>. QED BY <1>2, <2>1, <2>2, NullsAreFresh
<1>. QED BY <1>3, <1>4, <1>5, <1>6

LEMMA JoinEnterInv ==
  ASSUME Inv, NEW t \in Threads, JoinEnter(t)
  PROVE  SessInv'
<1> USE DEF Inv, SessInv
<1> DEFINE s == job[t].sid
           r == job[t].room
<1>1. job[t].pc = "join_enter" /\ UNCHANGED <<users, sidToUser, conn, auth, shown>>
  BY DEF JoinEnter, At
<1>2. s \in Sids /\ r \in Rooms
  BY <1>1 DEF AllEquipped, Equipped, RoomPcs
<1>3. CASE Finish(t) /\ UNCHANGED members
  BY <1>1, <1>3, FinishJob, IdleJob, RoutineStep DEF Types
<1>4. CASE Goto(t, "join_add") /\ members' = [members EXCEPT ![r] = @ \cup {s}]
  <2>1. /\ Moved(t) /\ job'[t].pc = "join_add" /\ job'[t].sid = s /\ job'[t].room = r
    BY <1>4, GotoJob DEF Pcs
  <2>2. \A o \in Threads \ {t} : job'[o] = job[o]
    BY <2>1 DEF Moved
  <2>3. Explained'
    <3> SUFFICES ASSUME NEW z \in Sids, NEW q \in Rooms, z \in members'[q], Denied(z, q)'
                 PROVE  \E o \in Threads : Settles(job'[o], z, q)
      BY DEF Explained, Settles
    <3>1. CASE z = s /\ q = r
      BY <2>1, <3>1 DEF Settles
    <3>2. CASE ~(z = s /\ q = r)
      <4>1. z \in members[q] /\ Denied(z, q)
        BY <1>1, <1>4, <3>2 DEF Types, Denied, Reg!ClientOf, Reg!IsInRoom, Reg!RoomsForSid
      <4>2. PICK o \in Threads : Settles(job[o], z, q)
        BY <4>1 DEF Explained
      <4>. QED BY <1>1, <2>2, <4>2 DEF Settles
    <3>. QED BY <3>1, <3>2
  <2>4. /\ members' \in [Rooms -> SUBSET Sids]
        /\ \A q \in Rooms : members'[q] \subseteq members[q] \cup {s}
    BY <1>2, <1>4 DEF Types
  <2>. QED BY <1>1, <1>2, <2>1, <2>3, <2>4, RoomStepInv DEF Equipped, RoomPcs, VictimPcs
<1>. QED BY <1>3, <1>4 DEF JoinEnter

LEMMA JoinAddInv ==
  ASSUME Inv, NEW t \in Threads, JoinAdd(t)
  PROVE  SessInv'
<1> USE DEF Inv, SessInv
<1> DEFINE s == job[t].sid
           r == job[t].room
<1>1. /\ job[t].pc = "join_add" /\ Reg!AddRoom(s, r) /\ Goto(t, "join_announce")
      /\ UNCHANGED <<conn, auth, members, shown>>
  BY DEF JoinAdd, At, serverVars
<1>2. s \in Sids /\ r \in Rooms
  BY <1>1 DEF AllEquipped, Equipped, RoomPcs
<1>3. /\ Moved(t) /\ job'[t].pc = "join_announce" /\ job'[t].sid = s /\ job'[t].room = r
  BY <1>1, GotoJob DEF Pcs
<1>4. Explained'
  <2> SUFFICES ASSUME NEW z \in Sids, NEW q \in Rooms, z \in members'[q], Denied(z, q)'
               PROVE  \E o \in Threads : Settles(job'[o], z, q)
    BY DEF Explained, Settles
  <2>1. Denied(z, q) /\ <<z, q>> # <<s, r>>
    BY <1>1, <1>2, RegistryDenies
  <2>2. PICK o \in Threads : Settles(job[o], z, q)
    BY <1>1, <2>1 DEF Explained
  <2>. QED BY <1>3, <2>1, <2>2 DEF Settles, Moved
<1>. QED BY <1>1, <1>2, <1>3, <1>4, RoomStepInv
  DEF Reg!AddRoom, Types, Equipped, RoomPcs, VictimPcs

LEMMA LeaveRemoveInv ==
  ASSUME Inv, NEW t \in Threads, LeaveRemove(t)
  PROVE  SessInv'
<1> USE DEF Inv, SessInv
<1> DEFINE s == job[t].sid
           r == job[t].room
           j == [job[t] EXCEPT !.pc = "leave_manager", !.known = Reg!IsInRoom(s, r)]
<1>1. /\ job[t].pc = "leave_remove" /\ Reg!RemoveRoom(s, r) /\ job' = [job EXCEPT ![t] = j]
      /\ UNCHANGED <<conn, auth, members, shown>>
  BY DEF LeaveRemove, At, serverVars
<1>2. s \in Sids /\ r \in Rooms
  BY <1>1 DEF AllEquipped, Equipped, RoomPcs
<1>3. j \in Job /\ j.pc = "leave_manager" /\ j.sid = s /\ j.room = r
  <2>1. Reg!IsInRoom(s, r) \in BOOLEAN
    BY DEF Reg!IsInRoom
  <2>. QED BY <2>1 DEF Types, Job, Pcs
<1> HIDE DEF j
<1>4. Moved(t) /\ job'[t] = j
  BY <1>1, <1>3 DEF Types, Moved
<1>5. Explained'
  <2> SUFFICES ASSUME NEW z \in Sids, NEW q \in Rooms, z \in members'[q], Denied(z, q)'
               PROVE  \E o \in Threads : Settles(job'[o], z, q)
    BY DEF Explained, Settles
  <2>1. CASE z = s /\ q = r
    BY <1>3, <1>4, <2>1 DEF Settles
  <2>2. CASE ~(z = s /\ q = r)
    <3>1. Denied(z, q)
      BY <1>1, <1>2, <2>2, RegistryDenies
    <3>2. PICK o \in Threads : Settles(job[o], z, q)
      BY <1>1, <3>1 DEF Explained
    <3>. QED BY <1>1, <1>4, <3>2 DEF Settles, Moved
  <2>. QED BY <2>1, <2>2
<1>. QED BY <1>1, <1>2, <1>3, <1>4, <1>5, RoomStepInv
  DEF Reg!RemoveRoom, Types, Equipped, RoomPcs, VictimPcs

LEMMA LeaveManagerInv ==
  ASSUME Inv, NEW t \in Threads, LeaveManager(t)
  PROVE  SessInv'
<1> USE DEF Inv, SessInv
<1> DEFINE s == job[t].sid
           r == job[t].room
<1>1. /\ job[t].pc = "leave_manager" /\ members' = [members EXCEPT ![r] = @ \ {s}]
      /\ UNCHANGED <<users, sidToUser, conn, auth, shown>>
  BY DEF LeaveManager, At
<1>2. s \in Sids /\ r \in Rooms
  BY <1>1 DEF AllEquipped, Equipped, RoomPcs
<1>3. /\ Moved(t) /\ Equipped(job'[t]) /\ job'[t].pc # "register"
      /\ job'[t].sid \in {s, NoSid}
  <2>1. CASE Goto(t, "leave_announce")
    BY <1>2, <2>1, GotoJob DEF Pcs, Equipped, RoomPcs, VictimPcs
  <2>2. CASE Finish(t)
    BY <2>2, FinishJob, IdleJob
  <2>. QED BY <2>1, <2>2 DEF LeaveManager
<1>4. /\ members' \in [Rooms -> SUBSET Sids]
      /\ \A q \in Rooms : members'[q] \subseteq members[q] \cup {s}
  BY <1>1 DEF Types
<1>5. Explained'
  <2> SUFFICES ASSUME NEW z \in Sids, NEW q \in Rooms, z \in members'[q], Denied(z, q)'
               PROVE  \E o \in Threads : Settles(job'[o], z, q)
    BY DEF Explained, Settles
  <2>1. z \in members[q] /\ ~(z = s /\ q = r)
    BY <1>1, <1>2 DEF Types
  <2>2. Denied(z, q)
    BY <1>1 DEF Denied, Reg!ClientOf, Reg!IsInRoom, Reg!RoomsForSid
  <2>3. PICK o \in Threads : Settles(job[o], z, q)
    BY <2>1, <2>2 DEF Explained
  <2>. QED BY <1>3, <2>1, <2>3 DEF Settles, Moved
<1>. QED BY <1>1, <1>3, <1>4, <1>5, RoomStepInv DEF RoomPcs

-----------------------------------------------------------------------------
LEMMA InitInv == Init => Inv
<1> SUFFICES ASSUME Init PROVE Inv
  OBVIOUS
<1>1. RegInv
  BY RegistryInit DEF Init
<1>2. \A t \in Threads : job[t] = Idle
  BY DEF Init
<1>3. Types
  BY IdleJob DEF Init, Types
<1>4. AllEquipped /\ Handshake
  BY <1>2, IdleJob DEF AllEquipped, Handshake
<1>5. Fresh
  BY <1>2, IdleJob, NullsAreFresh DEF Init, Reg!Init, Fresh
<1>6. Explained
  BY DEF Init, Explained
<1>. QED BY <1>1, <1>3, <1>4, <1>5, <1>6 DEF Inv, SessInv

LEMMA NextInv == Inv /\ [Next]_vars => Inv'
<1> SUFFICES ASSUME Inv, [Next]_vars PROVE Inv'
  OBVIOUS
<1>1. ASSUME NEW t \in Threads, Begin(t) \/ Step(t) PROVE Inv'
  <2>1. RegInv'
    BY <1>1, RegistryStep, RegistryKeepsInv DEF Inv
  <2>2. CASE Begin(t)
    BY <2>1, <2>2, ServerInv, ConnectBeginInv, RoomBeginInv, ShutdownStepInv DEF Begin, Inv
  <2>3. CASE Step(t)
    BY <2>1, <2>3, RegisterInv, ServerInv, DisconnectStepInv, UnregisterInv, JoinEnterInv,
      JoinAddInv, AnnounceInv, LeaveRemoveInv, LeaveManagerInv, ShutdownStepInv
    DEF Step, Inv
  <2>. QED BY <1>1, <2>2, <2>3
<1>2. CASE UNCHANGED vars
  BY <1>2 DEF vars, Inv, SessInv, RegInv, Types, AllEquipped, Fresh, Handshake, Explained,
    Denied, Reg!TypeOK, Reg!IndexAgrees, Reg!OfflineIsEmpty, Reg!ClientOf, Reg!IsInRoom,
    Reg!RoomsForSid
<1>. QED BY <1>1, <1>2 DEF Next

(* The handlers, the server's sessions and the registry keep their types.  *)
THEOREM SessionTypes == Spec => []TypeOK
<1>1. Inv => TypeOK
  BY DEF Inv, SessInv, RegInv, Types, TypeOK
<1>. QED BY <1>1, InitInv, NextInv, PTL DEF Spec

(* No handler registers a sid that is registered: the handlers of          *)
(* events.py, in any interleaving, use the registry as ClientRegistry      *)
(* assumes, so what is proved there holds under them.                      *)
THEOREM HandlersUseRegistry == Spec => RegistrySpec
<1>1. Init => Reg!Init
  BY DEF Init
<1>2. Inv /\ [Next]_vars => [Reg!Next]_(Reg!regVars)
  BY RegistryStep DEF Next, vars, Reg!regVars
<1>. QED BY <1>1, <1>2, InitInv, NextInv, PTL DEF Spec, RegistrySpec, Reg!Spec

(* A registered session with no handler at work receives no room that the  *)
(* registry says it is not in (events.py:165-169, 307-312), whatever       *)
(* requests, losses, failing evictions and shutdowns came before.          *)
THEOREM NoReceiverIsHidden == Spec => []NoHiddenReceiver
<1>1. Inv => NoHiddenReceiver
  BY DEF Inv, SessInv, Explained, Denied, Settles, NoHiddenReceiver, Quiet, Concerns
<1>. QED BY <1>1, InitInv, NextInv, PTL DEF Spec

-----------------------------------------------------------------------------
(* Both directions.  What a thread may be doing to a session decides what  *)
(* can be said of it, so these invariants relate jobs to sessions; each    *)
(* needs its own part of the circumstances to be excluded.                 *)

DiscPcs == {"disc_client", "disc_rooms", "disc_announce", "disc_forget"}

(* A session that is being disconnected takes no new request. *)
Closing == \A t \in Threads : job[t].pc \in DiscPcs => conn[job[t].victim] \in {"closing", "gone"}

(* Without pipelining, at most one handler runs in the name of a session.  *)
OneRequest ==
  \A t, o \in Threads : job[t].sid = job[o].sid /\ job[t].sid # NoSid => t = o

(* Whoever may send to a room receives it, in every state. *)
RoomsReceived == \A s \in Sids, r \in Rooms : Reg!IsInRoom(s, r) => s \in members[r]

(* A join entered the server's room and will enter the registry's; if the  *)
(* server dropped the session in between, it is not registered any more.   *)
Entered ==
  \A t \in Threads : job[t].pc = "join_add" =>
    job[t].sid \in members[job[t].room] \/ sidToUser[job[t].sid] = NoUser

(* A leave that left the registry's room finds nobody entered it since.    *)
Left ==
  \A t \in Threads : job[t].pc \in {"leave_manager", "leave_announce"} =>
    ~Reg!IsInRoom(job[t].sid, job[t].room)

(* A session the server is about to drop is in no room, nor about to be.   *)
(* It can be registered even so: a handshake that lost its connection.     *)
Dropped ==
  \A t \in Threads : job[t].pc = "disc_forget" =>
    /\ \A r \in Rooms : ~Reg!IsInRoom(job[t].victim, r)
    /\ \/ sidToUser[job[t].victim] = NoUser
       \/ \A o \in Threads : job[o].sid = job[t].victim => job[o].pc \notin {"join_enter", "join_add"}

(* The user of a session is known from its handshake on. *)
AuthKnown ==
  \A s \in Sids : /\ conn[s] = "unused" => auth[s] = NoUser
                  /\ conn[s] # "unused" => auth[s] \in Users

(* The peers know the rooms of an open session that is its user's only     *)
(* one, or the join that entered the room is about to tell them.           *)
Announced ==
  \A s \in Sids, r \in Rooms :
    IsOpen(s) /\ OnlySession(s) /\ Reg!IsInRoom(s, r) =>
      \/ r \in shown[auth[s]]
      \/ \E t \in Threads : job[t].pc = "join_announce" /\ job[t].sid = s /\ job[t].room = r

SerialInv ==
  /\ Closing /\ AuthKnown
  /\ OneRequest /\ RoomsReceived /\ Entered /\ Left /\ Dropped /\ Announced

(* Nobody disconnects a session before connect() was called for it. *)
Spared(s) == \A t \in Threads : job[t].victim # s /\ s \notin job[t].todo

Undisturbed ==
  /\ \A s \in Sids : conn[s] = "unused" => Spared(s)
  /\ \A t \in Threads : job[t].pc = "register" =>
       conn[job[t].sid] = "connecting" /\ Spared(job[t].sid)

(* What the server is about to drop was unregistered for good. *)
Unregistered == \A t \in Threads : job[t].pc = "disc_forget" => sidToUser[job[t].victim] = NoUser

LossInv == Undisturbed /\ Unregistered /\ NoGhost

(* An open session is registered, or its connect() is still to come, or    *)
(* it was superseded and the newer session's handler is about to end it.   *)
Running == \A t \in Threads : job[t].pc # "next_victim" /\ ~job[t].stopping

Answered ==
  \A s \in Sids : IsOpen(s) =>
    \/ sidToUser[s] = auth[s]
    \/ \E t \in Threads : \/ job[t].pc = "register" /\ job[t].sid = s
                          \/ job[t].pc = "evict" /\ job[t].victim = s

EvictInv == Closing /\ Running /\ Answered

-----------------------------------------------------------------------------
(* What the registry's operations do to its rooms *)

LEMMA RegistryAdmits ==
  ASSUME RegInv, NEW o \in Sids, NEW q \in Rooms, Reg!IsInRoom(o, q)'
  PROVE  /\ \A u \in Users, s \in Sids :
              sidToUser[s] = NoUser /\ Reg!Connect(u, s) => Reg!IsInRoom(o, q)
         /\ \A s \in Sids : Reg!Disconnect(s) => Reg!IsInRoom(o, q)
         /\ \A s \in Sids, r \in Rooms :
              Reg!AddRoom(s, r) =>
                Reg!IsInRoom(o, q) \/ (o = s /\ q = r /\ sidToUser[s] # NoUser)
         /\ \A s \in Sids, r \in Rooms :
              Reg!RemoveRoom(s, r) => Reg!IsInRoom(o, q) /\ <<o, q>> # <<s, r>>
         /\ ~Reg!Clear
<1>1. /\ RP!IsInRoom(o, q) <=> Reg!IsInRoom(o, q)
      /\ RP!IsInRoom(o, q)'
      /\ RP!RegInv
  BY SameRegistry DEF RP!ClientOf, Reg!ClientOf, RP!IsInRoom, Reg!IsInRoom,
    RP!RoomsForSid, Reg!RoomsForSid
<1>2. NoSid \notin Sids /\ NoUser \notin Users /\ NoClient \notin RP!ClientState
  BY NullsAreFresh DEF RP!ClientState, Reg!ClientState
<1>3. ASSUME NEW u \in Users, NEW s \in Sids, sidToUser[s] = NoUser, Reg!Connect(u, s)
      PROVE  Reg!IsInRoom(o, q)
  <2>1. RP!Connect(u, s)
    BY <1>3 DEF RP!Connect, Reg!Connect, RP!OldSid, Reg!OldSid
  <2>. QED BY <1>1, <1>2, <1>3, <2>1, RP!ConnectAdmits
<1>4. ASSUME NEW s \in Sids, Reg!Disconnect(s) PROVE Reg!IsInRoom(o, q)
  <2>1. RP!Disconnect(s)
    BY <1>4 DEF RP!Disconnect, Reg!Disconnect, RP!Holds, Reg!Holds
  <2>. QED BY <1>1, <1>2, <2>1, RP!DisconnectAdmits
<1>5. ASSUME NEW s \in Sids, NEW r \in Rooms, Reg!AddRoom(s, r), ~Reg!IsInRoom(o, q)
      PROVE  o = s /\ q = r /\ sidToUser[s] # NoUser
  <2>1. RP!AddRoom(s, r)
    BY <1>5 DEF RP!AddRoom, Reg!AddRoom, RP!ClientOf, Reg!ClientOf
  <2>. QED BY <1>1, <1>2, <1>5, <2>1, RP!AddRoomAdmits
<1>6. ASSUME NEW s \in Sids, NEW r \in Rooms, Reg!RemoveRoom(s, r)
      PROVE  Reg!IsInRoom(o, q) /\ <<o, q>> # <<s, r>>
  <2>1. RP!RemoveRoom(s, r)
    BY <1>6 DEF RP!RemoveRoom, Reg!RemoveRoom, RP!ClientOf, Reg!ClientOf
  <2>. QED BY <1>1, <1>2, <2>1, RP!RemoveRoomAdmits
<1>7. ~Reg!Clear
  BY DEF Reg!Clear, Reg!IsInRoom, Reg!RoomsForSid, Reg!ClientOf
<1>. QED BY <1>3, <1>4, <1>5, <1>6, <1>7

(* The sids of connected users are the sids the registry resolves; so a    *)
(* session that connect() replaces was registered.                         *)
LEMMA VictimsAreRegistered ==
  ASSUME RegInv
  PROVE  /\ \A s \in Reg!ActiveSids : s \in Sids /\ sidToUser[s] # NoUser
         /\ \A u \in Users : Reg!OldSid(u) # NoSid =>
              Reg!OldSid(u) \in Sids /\ sidToUser[Reg!OldSid(u)] = u
<1>1. NoSid \notin Sids /\ NoUser \notin Users /\ NoClient \notin RP!ClientState
  BY NullsAreFresh DEF RP!ClientState, Reg!ClientState
<1>2. Reg!ActiveSids = {s \in Sids : sidToUser[s] # NoUser}
  <2>1. RP!ActiveSids = Reg!ActiveSids
    BY DEF RP!ActiveSids, Reg!ActiveSids, RP!IsConnected, Reg!IsConnected
  <2>2. RP!ActiveSids = {s \in Sids : sidToUser[s] # NoUser}
    BY <1>1, SameRegistry, RP!ActiveAreResolved
  <2>. QED BY <2>1, <2>2
<1>3. \A u \in Users : Reg!OldSid(u) # NoSid =>
        Reg!OldSid(u) \in Sids /\ sidToUser[Reg!OldSid(u)] = u
  BY DEF RegInv, Reg!TypeOK, Reg!IndexAgrees, Reg!OldSid, Reg!ClientState
<1>. QED BY <1>2, <1>3

(* How connect() changes the index. *)
LEMMA ConnectIndex ==
  ASSUME RegInv, NEW u \in Users, NEW s \in Sids, sidToUser[s] = NoUser, Reg!Connect(u, s)
  PROVE  /\ sidToUser'[s] = u
         /\ \A o \in Sids : \/ sidToUser'[o] = sidToUser[o]
                            \/ o = s
                            \/ sidToUser'[o] = NoUser /\ o = Reg!OldSid(u)
BY DEF RegInv, Reg!TypeOK, Reg!Connect

-----------------------------------------------------------------------------
(* The control of a handler: where a step of thread t takes it, and what   *)
(* the job keeps.  Read with the guards that the invariants need.          *)

Begun(t, labels, s, v) ==
  /\ job[t] = Idle
  /\ job'[t].pc \in labels
  /\ job'[t].sid = s /\ job'[t].victim = v /\ job'[t].todo = {} /\ ~job'[t].stopping

Handshakes(t) ==
  \E s \in Sids : /\ Begun(t, {"register"}, s, NoSid)
                  /\ conn[s] = "unused" /\ conn'[s] = "connecting"

Loses(t) ==
  \E s \in Sids : /\ Begun(t, {"disc_client"}, NoSid, s)
                  /\ conn'[s] = "closing"
                  /\ conn[s] = "live" \/ "early_loss" \in Allowed

Requests(t) ==
  \E s \in Sids : /\ Begun(t, {"join_enter", "leave_remove"}, s, NoSid)
                  /\ conn[s] = "live"
                  /\ "pipelining" \in Allowed \/ \A o \in Threads : job[o].sid # s

ShutsDown(t) ==
  /\ "shutdown" \in Allowed
  /\ job[t] = Idle
  /\ job'[t].pc = "next_victim" /\ job'[t].sid = NoSid /\ job'[t].victim = NoSid
  /\ \A s \in job'[t].todo : sidToUser[s] # NoUser

(* A victim: the next one of the shutdown's list, or the session that      *)
(* connect() just replaced.                                                *)
Chooses(t) ==
  /\ job'[t].pc = "evict"
  /\ job'[t].sid = job[t].sid
  /\ job'[t].todo \subseteq job[t].todo /\ job'[t].stopping = job[t].stopping
  /\ \/ job[t].pc = "next_victim" /\ job'[t].victim \in job[t].todo
     \/ job[t].pc = "register" /\ sidToUser[job'[t].victim] # NoUser

Turns ==
  {<<"register", "accept">>, <<"evict", "disc_client">>, <<"disc_client", "disc_rooms">>,
   <<"disc_rooms", "disc_announce">>, <<"disc_announce", "disc_announce">>,
   <<"disc_announce", "disc_forget">>, <<"join_enter", "join_add">>,
   <<"join_add", "join_announce">>, <<"leave_remove", "leave_manager">>,
   <<"leave_manager", "leave_announce">>}

TurnsTo(t) ==
  /\ <<job[t].pc, job'[t].pc>> \in Turns
  /\ job'[t].sid = job[t].sid /\ job'[t].room = job[t].room
  /\ job'[t].victim = job[t].victim
  /\ job'[t].todo = job[t].todo /\ job'[t].stopping = job[t].stopping

Lasts == {"accept", "evict", "disc_forget", "join_enter", "join_announce",
          "leave_manager", "leave_announce", "next_victim"}

Ends(t) ==
  /\ job[t].pc \in Lasts
  /\ job'[t].pc \in {"accept", "next_victim", "idle"}
  /\ job'[t].sid \in {job[t].sid, NoSid} /\ job'[t].victim = NoSid
  /\ job'[t].todo \subseteq job[t].todo
  /\ job'[t].stopping \/ job'[t].pc = "next_victim" => job[t].stopping

Control(t) ==
  \/ Handshakes(t) \/ Loses(t) \/ Requests(t) \/ ShutsDown(t)
  \/ Chooses(t) \/ TurnsTo(t) \/ Ends(t)

LEMMA BeginControl ==
  ASSUME Inv, NEW t \in Threads, Begin(t)
  PROVE  Moved(t) /\ (Handshakes(t) \/ Loses(t) \/ Requests(t) \/ ShutsDown(t))
<1>1. Types
  BY DEF Inv, SessInv
<1>2. ASSUME NEW s \in Sids, NEW u \in Users, ConnectBegin(t, u, s)
      PROVE  Moved(t) /\ Handshakes(t)
  <2> DEFINE j == [Idle EXCEPT !.pc = "register", !.sid = s]
  <2>1. /\ j \in Job /\ j.pc = "register" /\ j.sid = s
        /\ j.victim = NoSid /\ j.todo = {} /\ ~j.stopping
    BY DEF Idle, Job, Pcs
  <2> HIDE DEF j
  <2>2. Moved(t) /\ job'[t] = j /\ job[t] = Idle
    BY <1>1, <1>2, <2>1, StartJob DEF ConnectBegin, j
  <2>3. conn[s] = "unused" /\ conn'[s] = "connecting"
    BY <1>1, <1>2 DEF ConnectBegin, Types
  <2>. QED BY <2>1, <2>2, <2>3 DEF Handshakes, Begun
<1>3. ASSUME NEW s \in Sids, Lose(t, s)
      PROVE  Moved(t) /\ Loses(t)
  <2> DEFINE j == [Idle EXCEPT !.pc = "disc_client", !.victim = s]
  <2>1. /\ j \in Job /\ j.pc = "disc_client" /\ j.sid = NoSid
        /\ j.victim = s /\ j.todo = {} /\ ~j.stopping
    BY DEF Idle, Job, Pcs
  <2> HIDE DEF j
  <2>2. Moved(t) /\ job'[t] = j /\ job[t] = Idle
    BY <1>1, <1>3, <2>1, StartJob DEF Lose, j
  <2>3. conn'[s] = "closing" /\ (conn[s] = "live" \/ "early_loss" \in Allowed)
    BY <1>1, <1>3 DEF Lose, BeginClose, Types
  <2>. QED BY <2>1, <2>2, <2>3 DEF Loses, Begun
<1>4. ASSUME NEW s \in Sids, NEW r \in Rooms, JoinBegin(t, s, r) \/ LeaveBegin(t, s, r)
      PROVE  Moved(t) /\ Requests(t)
  <2>1. PICK label \in {"join_enter", "leave_remove"} :
          Start(t, [Idle EXCEPT !.pc = label, !.sid = s, !.room = r])
    BY <1>4 DEF JoinBegin, LeaveBegin
  <2> DEFINE j == [Idle EXCEPT !.pc = label, !.sid = s, !.room = r]
  <2>2. /\ j \in Job /\ j.pc = label /\ j.sid = s
        /\ j.victim = NoSid /\ j.todo = {} /\ ~j.stopping
    BY DEF Idle, Job, Pcs
  <2> HIDE DEF j
  <2>3. Moved(t) /\ job'[t] = j /\ job[t] = Idle
    BY <1>1, <2>1, <2>2, StartJob DEF j
  <2>4. conn[s] = "live" /\ ("pipelining" \in Allowed \/ \A o \in Threads : job[o].sid # s)
    BY <1>4 DEF JoinBegin, LeaveBegin, Admitted
  <2>. QED BY <2>2, <2>3, <2>4 DEF Requests, Begun
<1>5. CASE ShutdownBegin(t)
  <2> DEFINE j == [Idle EXCEPT !.pc = "next_victim", !.todo = Reg!ActiveSids, !.stopping = TRUE]
  <2>1. \A s \in Reg!ActiveSids : s \in Sids /\ sidToUser[s] # NoUser
    BY VictimsAreRegistered DEF Inv
  <2>2. /\ j \in Job /\ j.pc = "next_victim" /\ j.sid = NoSid
        /\ j.victim = NoSid /\ j.todo = Reg!ActiveSids
    BY <2>1 DEF Idle, Job, Pcs
  <2>3. Start(t, j) /\ "shutdown" \in Allowed
    BY <1>5 DEF ShutdownBegin
  <2> HIDE DEF j
  <2>4. Moved(t) /\ job'[t] = j /\ job[t] = Idle
    BY <1>1, <2>2, <2>3, StartJob
  <2>. QED BY <2>1, <2>2, <2>3, <2>4 DEF ShutsDown
<1>. QED BY <1>2, <1>3, <1>4, <1>5 DEF Begin

LEMMA StepControl ==
  ASSUME Inv, NEW t \in Threads, Step(t)
  PROVE  Moved(t) /\ (Chooses(t) \/ TurnsTo(t) \/ Ends(t))
<1>1. Types /\ job[t] \in Job
  BY DEF Inv, SessInv, Types
<1>2. ASSUME NEW label \in Pcs, Goto(t, label), <<job[t].pc, label>> \in Turns
      PROVE  Moved(t) /\ TurnsTo(t)
  BY <1>1, <1>2, GotoJob DEF TurnsTo
<1>3. ASSUME Finish(t), job[t].pc \in Lasts
      PROVE  Moved(t) /\ Ends(t)
  BY <1>1, <1>3, FinishJob, IdleJob DEF Ends
<1>4. ASSUME AfterDisconnect(t), job[t].pc \in Lasts
      PROVE  Moved(t) /\ Ends(t)
  BY <1>1, <1>4, ReturnJob DEF Ends
<1>5. ASSUME NEW label \in Pcs, NEW k \in BOOLEAN, NEW R \in SUBSET Rooms,
             job' = [job EXCEPT ![t].pc = label, ![t].known = k, ![t].rooms = R],
             <<job[t].pc, label>> \in Turns
      PROVE  Moved(t) /\ TurnsTo(t)
  <2> DEFINE j == [job[t] EXCEPT !.pc = label, !.known = k, !.rooms = R]
  <2>1. /\ j \in Job /\ j.pc = label /\ j.sid = job[t].sid /\ j.room = job[t].room
        /\ j.victim = job[t].victim /\ j.todo = job[t].todo /\ j.stopping = job[t].stopping
    BY <1>1 DEF Job
  <2>2. job' = [job EXCEPT ![t] = j]
    BY <1>5
  <2> HIDE DEF j
  <2>3. Moved(t) /\ job'[t] = j
    BY <1>1, <2>1, <2>2 DEF Types, Moved
  <2>. QED BY <1>5, <2>1, <2>3 DEF TurnsTo
<1>6. ASSUME NEW v \in Sids, NEW T \in SUBSET job[t].todo,
             job' = [job EXCEPT ![t].pc = "evict", ![t].victim = v, ![t].todo = T],
             \/ job[t].pc = "next_victim" /\ v \in job[t].todo
             \/ job[t].pc = "register" /\ sidToUser[v] # NoUser
      PROVE  Moved(t) /\ Chooses(t)
  <2> DEFINE j == [job[t] EXCEPT !.pc = "evict", !.victim = v, !.todo = T]
  <2>1. /\ j \in Job /\ j.pc = "evict" /\ j.sid = job[t].sid
        /\ j.victim = v /\ j.todo = T /\ j.stopping = job[t].stopping
    BY <1>1 DEF Job, Pcs
  <2>2. job' = [job EXCEPT ![t] = j]
    BY <1>6
  <2> HIDE DEF j
  <2>3. Moved(t) /\ job'[t] = j
    BY <1>1, <2>1, <2>2 DEF Types, Moved
  <2>. QED BY <1>6, <2>1, <2>3 DEF Chooses
<1>7. job[t].rooms \in SUBSET Rooms /\ job[t].known \in BOOLEAN /\ job[t].todo \in SUBSET Sids
  BY <1>1 DEF Job
<1>8. CASE Register(t)
  <2> DEFINE old == Reg!OldSid(auth[job[t].sid])
  <2>1. job[t].pc = "register"
    BY <1>8 DEF Register, At
  <2>2. auth[job[t].sid] \in Users
    BY <2>1 DEF Inv, SessInv, Handshake
  <2>3. CASE Goto(t, "accept")
    BY <1>2, <2>1, <2>3 DEF Turns, Pcs
  <2>4. CASE old # NoSid /\ job' = [job EXCEPT ![t].pc = "evict", ![t].victim = old]
    <3>1. old \in Sids /\ sidToUser[old] # NoUser
      BY <2>2, <2>4, VictimsAreRegistered, NullsAreFresh DEF Inv
    <3> HIDE DEF old
    <3>2. job' = [job EXCEPT ![t].pc = "evict", ![t].victim = old, ![t].todo = job[t].todo]
      BY <1>1, <2>4 DEF Types, Job
    <3>. QED BY <1>6, <1>7, <2>1, <3>1, <3>2
  <2>. QED BY <1>8, <2>3, <2>4 DEF Register
<1>9. CASE DiscClient(t)
  <2> DEFINE k == Reg!ClientOf(job[t].victim) # NoClient
  <2>1. /\ job[t].pc = "disc_client" /\ k \in BOOLEAN
        /\ job' = [job EXCEPT ![t].pc = "disc_rooms", ![t].known = k]
    BY <1>9 DEF DiscClient, At
  <2> HIDE DEF k
  <2>2. job' = [job EXCEPT ![t].pc = "disc_rooms", ![t].known = k, ![t].rooms = job[t].rooms]
    BY <1>1, <2>1 DEF Types, Job
  <2>3. <<job[t].pc, "disc_rooms">> \in Turns /\ "disc_rooms" \in Pcs
    BY <2>1 DEF Turns, Pcs
  <2>. QED BY <1>5, <1>7, <2>1, <2>2, <2>3
<1>10. CASE DiscRooms(t)
  <2> DEFINE R == IF job[t].known THEN Reg!RoomsForSid(job[t].victim) ELSE {}
  <2>1. /\ job[t].pc = "disc_rooms"
        /\ job' = [job EXCEPT ![t].pc = "disc_announce", ![t].rooms = R]
    BY <1>10 DEF DiscRooms, At
  <2>2. R \in SUBSET Rooms
    <3>1. job[t].victim \in Sids
      BY <2>1 DEF Inv, SessInv, AllEquipped, Equipped, VictimPcs
    <3>. QED BY <3>1 DEF Inv, RegInv, Reg!TypeOK, Reg!RoomsForSid, Reg!ClientOf, Reg!ClientState
  <2> HIDE DEF R
  <2>3. job' = [job EXCEPT ![t].pc = "disc_announce", ![t].known = job[t].known, ![t].rooms = R]
    BY <1>1, <2>1 DEF Types, Job
  <2>4. <<job[t].pc, "disc_announce">> \in Turns /\ "disc_announce" \in Pcs
    BY <2>1 DEF Turns, Pcs
  <2>. QED BY <1>5, <1>7, <2>2, <2>3, <2>4
<1>11. CASE DiscAnnounce(t)
  <2>1. PICK r \in job[t].rooms : job' = [job EXCEPT ![t].rooms = @ \ {r}]
    BY <1>11 DEF DiscAnnounce
  <2>2. job[t].pc = "disc_announce"
    BY <1>11 DEF DiscAnnounce, At
  <2> DEFINE R == job[t].rooms \ {r}
             k == job[t].known
  <2>3. job' = [job EXCEPT ![t].pc = "disc_announce", ![t].known = k, ![t].rooms = R]
    BY <1>1, <2>1, <2>2 DEF Types, Job
  <2>4. <<job[t].pc, "disc_announce">> \in Turns /\ "disc_announce" \in Pcs
    BY <2>2 DEF Turns, Pcs
  <2>5. R \in SUBSET Rooms /\ k \in BOOLEAN
    BY <1>7
  <2> HIDE DEF R, k
  <2>. QED BY <1>5, <2>3, <2>4, <2>5
<1>12. CASE LeaveRemove(t)
  <2> DEFINE k == Reg!IsInRoom(job[t].sid, job[t].room)
  <2>1. /\ job[t].pc = "leave_remove" /\ k \in BOOLEAN
        /\ job' = [job EXCEPT ![t].pc = "leave_manager", ![t].known = k]
    BY <1>12 DEF LeaveRemove, At, Reg!IsInRoom
  <2> HIDE DEF k
  <2>2. job' = [job EXCEPT ![t].pc = "leave_manager", ![t].known = k, ![t].rooms = job[t].rooms]
    BY <1>1, <2>1 DEF Types, Job
  <2>3. <<job[t].pc, "leave_manager">> \in Turns /\ "leave_manager" \in Pcs
    BY <2>1 DEF Turns, Pcs
  <2>. QED BY <1>5, <1>7, <2>1, <2>2, <2>3
<1>13. CASE ShutdownNext(t)
  <2>1. PICK v \in job[t].todo :
          job' = [job EXCEPT ![t].pc = "evict", ![t].victim = v, ![t].todo = @ \ {v}]
    BY <1>13 DEF ShutdownNext
  <2> DEFINE T == job[t].todo \ {v}
  <2>2. /\ job' = [job EXCEPT ![t].pc = "evict", ![t].victim = v, ![t].todo = T]
        /\ T \in SUBSET job[t].todo /\ v \in Sids /\ v \in job[t].todo
        /\ job[t].pc = "next_victim"
    BY <1>1, <1>7, <1>13, <2>1 DEF ShutdownNext, At, Types, Job
  <2> HIDE DEF T
  <2>. QED BY <1>6, <2>2
<1>14. CASE Evict(t) \/ EvictError(t) \/ DiscUnregister(t) \/ DiscForget(t)
  <2>1. \/ job[t].pc = "evict" /\ Goto(t, "disc_client")
        \/ job[t].pc = "disc_announce" /\ Goto(t, "disc_forget")
        \/ job[t].pc \in {"evict", "disc_forget"} /\ AfterDisconnect(t)
    BY <1>14 DEF Evict, EvictError, DiscUnregister, DiscForget, At
  <2>. QED BY <1>2, <1>4, <2>1 DEF Turns, Pcs, Lasts
<1>15. CASE Accept(t) \/ JoinAnnounce(t) \/ LeaveAnnounce(t) \/ ShutdownClear(t)
  <2>1. /\ job[t].pc \in {"accept", "join_announce", "leave_announce", "next_victim"}
        /\ Finish(t)
    BY <1>15 DEF Accept, JoinAnnounce, LeaveAnnounce, ShutdownClear, At
  <2>. QED BY <1>3, <2>1 DEF Lasts
<1>16. CASE JoinEnter(t) \/ JoinAdd(t) \/ LeaveManager(t)
  <2>1. \/ job[t].pc = "join_enter" /\ (Goto(t, "join_add") \/ Finish(t))
        \/ job[t].pc = "join_add" /\ Goto(t, "join_announce")
        \/ job[t].pc = "leave_manager" /\ (Goto(t, "leave_announce") \/ Finish(t))
    BY <1>16 DEF JoinEnter, JoinAdd, LeaveManager, At
  <2>. QED BY <1>2, <1>3, <2>1 DEF Turns, Pcs, Lasts
<1>. QED BY <1>8, <1>9, <1>10, <1>11, <1>12, <1>13, <1>14, <1>15, <1>16 DEF Step

LEMMA ControlFlow ==
  ASSUME Inv, NEW t \in Threads, Begin(t) \/ Step(t)
  PROVE  Moved(t) /\ Control(t)
BY BeginControl, StepControl DEF Control

-----------------------------------------------------------------------------
(* What a step of thread t can do to each part of the state, and where its *)
(* handler must be for that.                                               *)

ConnMoves(t) ==
  \A s \in Sids :
    \/ conn'[s] = conn[s]
    \/ conn[s] = "unused" /\ conn'[s] = "connecting" /\ job'[t].pc = "register" /\ job'[t].sid = s
    \/ conn[s] = "connecting" /\ conn'[s] = "live" /\ job[t].pc = "accept" /\ job[t].sid = s
    \/ IsOpen(s) /\ conn'[s] = "closing" /\ job'[t].pc = "disc_client" /\ job'[t].victim = s
    \/ conn'[s] = "gone" /\ job[t].pc = "disc_forget" /\ job[t].victim = s

AuthMoves ==
  \A s \in Sids :
    \/ auth'[s] = auth[s] /\ ~(conn[s] = "unused" /\ conn'[s] = "connecting")
    \/ conn[s] = "unused" /\ conn'[s] = "connecting" /\ auth'[s] \in Users

IndexMoves(t) ==
  \A s \in Sids :
    \/ sidToUser'[s] = sidToUser[s]
    \/ job[t].pc = "register" /\ job[t].sid = s /\ sidToUser'[s] = auth[s]
    \/ /\ sidToUser'[s] = NoUser
       /\ \/ job[t].pc = "register" /\ job'[t].pc = "evict" /\ job'[t].victim = s
          \/ job[t].pc = "disc_announce" /\ job[t].victim = s
          \/ job[t].pc = "next_victim"

AdmitMoves(t) ==
  \A s \in Sids, r \in Rooms :
    Reg!IsInRoom(s, r)' =>
      \/ Reg!IsInRoom(s, r)
      \/ /\ job[t].pc = "join_add" /\ job'[t].pc = "join_announce"
         /\ job[t].sid = s /\ job[t].room = r /\ sidToUser[s] # NoUser

MemberMoves(t) ==
  \A s \in Sids, r \in Rooms :
    s \in members[r] =>
      \/ s \in members'[r]
      \/ job[t].pc = "leave_manager" /\ job[t].sid = s /\ job[t].room = r
      \/ job[t].pc = "disc_forget" /\ job[t].victim = s

ShownMoves(t) ==
  \A u \in Users, r \in Rooms :
    r \in shown[u] =>
      \/ r \in shown'[u]
      \/ job[t].pc = "leave_announce" /\ auth[job[t].sid] = u /\ job[t].room = r
      \/ job[t].pc = "disc_announce" /\ auth[job[t].victim] = u

(* What a handler has achieved when it leaves a place. *)
Achieved(t) ==
  /\ job[t].pc = "register" => sidToUser'[job[t].sid] = auth[job[t].sid]
  /\ job[t].pc = "evict" =>
       "evict_error" \in Allowed \/ conn'[job[t].victim] \notin {"connecting", "live"}
  /\ job[t].pc = "evict" /\ job'[t].pc = "disc_client" => conn'[job[t].victim] = "closing"
  /\ job[t].pc = "disc_announce" /\ job'[t].pc = "disc_forget" =>
       sidToUser'[job[t].victim] = NoUser
  /\ job[t].pc = "join_enter" /\ job'[t].pc = "join_add" => job[t].sid \in members'[job[t].room]
  /\ job[t].pc = "join_announce" /\ auth[job[t].sid] \in Users =>
       job[t].room \in shown'[auth[job[t].sid]]
  /\ job[t].pc = "leave_remove" =>
       \A s \in Sids, r \in Rooms :
         s = job[t].sid /\ r = job[t].room => ~Reg!IsInRoom(s, r)'

Moves(t) ==
  /\ Moved(t) /\ Control(t) /\ Achieved(t)
  /\ ConnMoves(t) /\ AuthMoves /\ IndexMoves(t)
  /\ AdmitMoves(t) /\ MemberMoves(t) /\ ShownMoves(t)

LEMMA ConnStep ==
  ASSUME Inv, NEW t \in Threads, Begin(t) \/ Step(t)
  PROVE  ConnMoves(t) /\ AuthMoves
<1> USE DEF Inv, SessInv
<1>1. ASSUME NEW s \in Sids, NEW u \in Users, ConnectBegin(t, u, s)
      PROVE  ConnMoves(t) /\ AuthMoves
  <2>1. /\ conn[s] = "unused" /\ conn' = [conn EXCEPT ![s] = "connecting"]
        /\ auth' = [auth EXCEPT ![s] = u]
    BY <1>1 DEF ConnectBegin
  <2> DEFINE j == [Idle EXCEPT !.pc = "register", !.sid = s]
  <2>2. j \in Job /\ j.pc = "register" /\ j.sid = s
    BY DEF Idle, Job, Pcs
  <2> HIDE DEF j
  <2>3. job'[t] = j
    BY <1>1, <2>2, StartJob DEF ConnectBegin, j
  <2>. QED BY <2>1, <2>2, <2>3 DEF ConnMoves, AuthMoves, Types
<1>2. ASSUME NEW s \in Sids, Lose(t, s)
      PROVE  ConnMoves(t) /\ AuthMoves
  <2>1. /\ IsOpen(s) /\ conn' = [conn EXCEPT ![s] = "closing"] /\ UNCHANGED auth
    BY <1>2 DEF Lose, BeginClose, IsOpen
  <2> DEFINE j == [Idle EXCEPT !.pc = "disc_client", !.victim = s]
  <2>2. j \in Job /\ j.pc = "disc_client" /\ j.victim = s
    BY DEF Idle, Job, Pcs
  <2> HIDE DEF j
  <2>3. job'[t] = j
    BY <1>2, <2>2, StartJob DEF Lose, j
  <2>. QED BY <2>1, <2>2, <2>3 DEF ConnMoves, AuthMoves, Types
<1>3. CASE Accept(t)
  BY <1>3 DEF Accept, At, ConnMoves, AuthMoves, Types
<1>4. CASE Evict(t)
  <2>1. CASE UNCHANGED conn
    BY <1>4, <2>1 DEF Evict, ConnMoves, AuthMoves
  <2>2. CASE IsOpen(job[t].victim) /\ BeginClose(job[t].victim) /\ Goto(t, "disc_client")
    BY <1>4, <2>2, GotoJob DEF Evict, BeginClose, ConnMoves, AuthMoves, Types, Pcs
  <2>. QED BY <1>4, <2>1, <2>2 DEF Evict
<1>5. CASE DiscForget(t)
  BY <1>5 DEF DiscForget, Forget, At, ConnMoves, AuthMoves, Types
<1>6. CASE UNCHANGED <<conn, auth>>
  BY <1>6 DEF ConnMoves, AuthMoves
<1>7. CASE \/ \E s \in Sids, r \in Rooms : JoinBegin(t, s, r) \/ LeaveBegin(t, s, r)
           \/ ShutdownBegin(t) \/ ShutdownNext(t) \/ ShutdownClear(t)
           \/ Register(t) \/ EvictError(t)
           \/ DiscClient(t) \/ DiscRooms(t) \/ DiscAnnounce(t) \/ DiscUnregister(t)
           \/ JoinEnter(t) \/ JoinAdd(t) \/ JoinAnnounce(t)
           \/ LeaveRemove(t) \/ LeaveManager(t) \/ LeaveAnnounce(t)
  BY <1>6, <1>7 DEF JoinBegin, LeaveBegin, ShutdownBegin, ShutdownNext, ShutdownClear, Register,
    EvictError, DiscClient, DiscRooms, DiscAnnounce, DiscUnregister, JoinEnter, JoinAdd,
    JoinAnnounce, LeaveRemove, LeaveManager, LeaveAnnounce, serverVars
<1>. QED BY <1>1, <1>2, <1>3, <1>4, <1>5, <1>7 DEF Begin, Step

(* The registry's methods are called at five places. *)
LEMMA RegistryStepAt ==
  ASSUME Inv, NEW t \in Threads, Begin(t) \/ Step(t)
  PROVE  \/ UNCHANGED <<users, sidToUser>>
         \/ /\ job[t].pc = "register" /\ Register(t) /\ job[t].sid \in Sids
            /\ Reg!Connect(auth[job[t].sid], job[t].sid)
            /\ auth[job[t].sid] \in Users /\ sidToUser[job[t].sid] = NoUser
         \/ /\ job[t].pc = "disc_announce" /\ job[t].victim \in Sids
            /\ Reg!Disconnect(job[t].victim)
         \/ /\ job[t].pc = "join_add" /\ job[t].sid \in Sids /\ job[t].room \in Rooms
            /\ Reg!AddRoom(job[t].sid, job[t].room) /\ job'[t].pc = "join_announce"
         \/ /\ job[t].pc = "leave_remove" /\ job[t].sid \in Sids /\ job[t].room \in Rooms
            /\ Reg!RemoveRoom(job[t].sid, job[t].room)
         \/ job[t].pc = "next_victim" /\ Reg!Clear
<1>1. Types /\ AllEquipped /\ Handshake
  BY DEF Inv, SessInv
<1>2. CASE Register(t)
  BY <1>1, <1>2 DEF Register, At, AllEquipped, Equipped, Handshake
<1>3. CASE DiscUnregister(t)
  BY <1>1, <1>3 DEF DiscUnregister, At, AllEquipped, Equipped, VictimPcs
<1>4. CASE JoinAdd(t)
  BY <1>1, <1>4, GotoJob DEF JoinAdd, At, AllEquipped, Equipped, RoomPcs, Pcs
<1>5. CASE LeaveRemove(t)
  BY <1>1, <1>5 DEF LeaveRemove, At, AllEquipped, Equipped, RoomPcs
<1>6. CASE ShutdownClear(t)
  BY <1>6 DEF ShutdownClear, At
<1>7. CASE Begin(t) \/ Accept(t) \/ Evict(t) \/ EvictError(t) \/ DiscClient(t) \/ DiscRooms(t)
           \/ DiscAnnounce(t) \/ DiscForget(t) \/ JoinEnter(t) \/ JoinAnnounce(t)
           \/ LeaveManager(t) \/ LeaveAnnounce(t) \/ ShutdownNext(t)
  BY <1>7 DEF Begin, Lose, ConnectBegin, JoinBegin, LeaveBegin, ShutdownBegin, Accept, Evict,
    EvictError, DiscClient, DiscRooms, DiscAnnounce, DiscForget, JoinEnter, JoinAnnounce,
    LeaveManager, LeaveAnnounce, ShutdownNext
<1>. QED BY <1>2, <1>3, <1>4, <1>5, <1>6, <1>7 DEF Step

LEMMA IndexStep ==
  ASSUME Inv, NEW t \in Threads, Begin(t) \/ Step(t)
  PROVE  IndexMoves(t)
<1> SUFFICES ASSUME NEW s \in Sids, sidToUser'[s] # sidToUser[s]
             PROVE  \/ job[t].pc = "register" /\ job[t].sid = s /\ sidToUser'[s] = auth[s]
                    \/ /\ sidToUser'[s] = NoUser
                       /\ \/ job[t].pc = "register" /\ job'[t].pc = "evict" /\ job'[t].victim = s
                          \/ job[t].pc = "disc_announce" /\ job[t].victim = s
                          \/ job[t].pc = "next_victim"
  BY DEF IndexMoves
<1>1. RegInv /\ Types
  BY DEF Inv, SessInv
<1>2. CASE /\ job[t].pc = "register" /\ Register(t) /\ job[t].sid \in Sids
           /\ Reg!Connect(auth[job[t].sid], job[t].sid)
           /\ auth[job[t].sid] \in Users /\ sidToUser[job[t].sid] = NoUser
  <2> DEFINE old == Reg!OldSid(auth[job[t].sid])
  <2>1. \/ s = job[t].sid /\ sidToUser'[s] = auth[s]
        \/ sidToUser'[s] = NoUser /\ s = old
    BY <1>1, <1>2, ConnectIndex
  <2>2. s = old => old # NoSid
    BY NullsAreFresh
  <2>3. old # NoSid => job' = [job EXCEPT ![t].pc = "evict", ![t].victim = old]
    BY <1>2 DEF Register
  <2> HIDE DEF old
  <2>4. old # NoSid => job'[t].pc = "evict" /\ job'[t].victim = old
    BY <1>1, <2>3 DEF Types, Job
  <2>. QED BY <1>2, <2>1, <2>2, <2>4
<1>3. CASE job[t].pc = "disc_announce" /\ job[t].victim \in Sids /\ Reg!Disconnect(job[t].victim)
  BY <1>1, <1>3 DEF Reg!Disconnect, RegInv, Reg!TypeOK
<1>4. CASE job[t].pc = "next_victim" /\ Reg!Clear
  BY <1>4 DEF Reg!Clear
<1>5. CASE \/ \E o \in Sids, r \in Rooms : Reg!AddRoom(o, r) \/ Reg!RemoveRoom(o, r)
  BY <1>5 DEF Reg!AddRoom, Reg!RemoveRoom
<1>. QED BY <1>2, <1>3, <1>4, <1>5, RegistryStepAt

LEMMA AdmitStep ==
  ASSUME Inv, NEW t \in Threads, Begin(t) \/ Step(t)
  PROVE  AdmitMoves(t)
<1> SUFFICES ASSUME NEW s \in Sids, NEW r \in Rooms, Reg!IsInRoom(s, r)', ~Reg!IsInRoom(s, r)
             PROVE  /\ job[t].pc = "join_add" /\ job'[t].pc = "join_announce"
                    /\ job[t].sid = s /\ job[t].room = r /\ sidToUser[s] # NoUser
  BY DEF AdmitMoves
<1>1. /\ \A u \in Users, z \in Sids : ~(sidToUser[z] = NoUser /\ Reg!Connect(u, z))
      /\ \A z \in Sids : ~Reg!Disconnect(z)
      /\ \A z \in Sids, q \in Rooms :
           Reg!AddRoom(z, q) => s = z /\ r = q /\ sidToUser[z] # NoUser
      /\ \A z \in Sids, q \in Rooms : ~Reg!RemoveRoom(z, q)
      /\ ~Reg!Clear
  BY RegistryAdmits DEF Inv
<1>2. ~UNCHANGED <<users, sidToUser>>
  BY DEF Reg!IsInRoom, Reg!RoomsForSid, Reg!ClientOf
<1>3. /\ job[t].pc = "join_add" /\ job[t].sid \in Sids /\ job[t].room \in Rooms
      /\ Reg!AddRoom(job[t].sid, job[t].room) /\ job'[t].pc = "join_announce"
  BY <1>1, <1>2, RegistryStepAt
<1>. QED BY <1>1, <1>3

LEMMA MemberStep ==
  ASSUME Inv, NEW t \in Threads, Begin(t) \/ Step(t)
  PROVE  MemberMoves(t)
<1>1. Types
  BY DEF Inv, SessInv
<1>2. CASE JoinEnter(t)
  BY <1>1, <1>2 DEF JoinEnter, MemberMoves, Types
<1>3. CASE LeaveManager(t)
  BY <1>1, <1>3 DEF LeaveManager, At, MemberMoves, Types
<1>4. CASE DiscForget(t)
  BY <1>1, <1>4 DEF DiscForget, Forget, At, MemberMoves, Types
<1>5. CASE \/ Begin(t) \/ Register(t) \/ Accept(t) \/ Evict(t) \/ EvictError(t)
           \/ DiscClient(t) \/ DiscRooms(t) \/ DiscAnnounce(t) \/ DiscUnregister(t)
           \/ JoinAdd(t) \/ JoinAnnounce(t) \/ LeaveRemove(t) \/ LeaveAnnounce(t)
           \/ ShutdownNext(t) \/ ShutdownClear(t)
  <2>1. UNCHANGED members
    BY <1>5 DEF Begin, Lose, ConnectBegin, JoinBegin, LeaveBegin, ShutdownBegin, Register, Accept,
      Evict, EvictError, DiscClient, DiscRooms, DiscAnnounce, DiscUnregister, JoinAdd,
      JoinAnnounce, LeaveRemove, LeaveAnnounce, ShutdownNext, ShutdownClear, serverVars
  <2>. QED BY <2>1 DEF MemberMoves
<1>. QED BY <1>2, <1>3, <1>4, <1>5 DEF Step

LEMMA ShownStep ==
  ASSUME Inv, NEW t \in Threads, Begin(t) \/ Step(t)
  PROVE  ShownMoves(t)
<1>1. Types
  BY DEF Inv, SessInv
<1>2. CASE DiscAnnounce(t)
  BY <1>1, <1>2 DEF DiscAnnounce, At, ShownMoves, Types
<1>3. CASE JoinAnnounce(t)
  BY <1>1, <1>3 DEF JoinAnnounce, ShownMoves, Types
<1>4. CASE LeaveAnnounce(t)
  BY <1>1, <1>4 DEF LeaveAnnounce, At, ShownMoves, Types
<1>5. CASE \/ Begin(t) \/ Register(t) \/ Accept(t) \/ Evict(t) \/ EvictError(t)
           \/ DiscClient(t) \/ DiscRooms(t) \/ DiscUnregister(t) \/ DiscForget(t)
           \/ JoinEnter(t) \/ JoinAdd(t) \/ LeaveRemove(t) \/ LeaveManager(t)
           \/ ShutdownNext(t) \/ ShutdownClear(t)
  <2>1. UNCHANGED shown
    BY <1>5 DEF Begin, Lose, ConnectBegin, JoinBegin, LeaveBegin, ShutdownBegin, Register, Accept,
      Evict, EvictError, DiscClient, DiscRooms, DiscUnregister, DiscForget, JoinEnter, JoinAdd,
      LeaveRemove, LeaveManager, ShutdownNext, ShutdownClear
  <2>. QED BY <2>1 DEF ShownMoves
<1>. QED BY <1>2, <1>3, <1>4, <1>5 DEF Step

(* Where a thread is decides what its step can be. *)
LEMMA StepAt ==
  ASSUME Inv, NEW t \in Threads, Begin(t) \/ Step(t)
  PROVE  /\ job[t].pc = "register" => Register(t)
         /\ job[t].pc = "evict" => Evict(t) \/ EvictError(t)
         /\ job[t].pc = "disc_announce" => DiscAnnounce(t) \/ DiscUnregister(t)
         /\ job[t].pc = "join_enter" => JoinEnter(t)
         /\ job[t].pc = "join_announce" => JoinAnnounce(t)
         /\ job[t].pc = "leave_remove" => LeaveRemove(t)
<1>1. CASE Begin(t)
  <2>1. job[t] = Idle
    BY <1>1, BeginControl DEF Handshakes, Loses, Requests, ShutsDown, Begun
  <2>. QED BY <2>1, IdleJob
<1>2. CASE Step(t)
  BY <1>2 DEF Step, At, Register, Accept, Evict, EvictError, DiscClient, DiscRooms, DiscAnnounce,
    DiscUnregister, DiscForget, JoinEnter, JoinAdd, JoinAnnounce, LeaveRemove, LeaveManager,
    LeaveAnnounce, ShutdownNext, ShutdownClear
<1>. QED BY <1>1, <1>2

LEMMA AchievedStep ==
  ASSUME Inv, NEW t \in Threads, Begin(t) \/ Step(t)
  PROVE  Achieved(t)
<1>1. Types /\ RegInv /\ AllEquipped /\ Handshake
  BY DEF Inv, SessInv
<1>2. ASSUME job[t].pc = "register" PROVE sidToUser'[job[t].sid] = auth[job[t].sid]
  BY <1>1, <1>2, StepAt DEF Register, Reg!Connect, AllEquipped, Equipped
<1>3. ASSUME job[t].pc = "evict"
      PROVE  /\ "evict_error" \in Allowed \/ conn'[job[t].victim] \notin {"connecting", "live"}
             /\ job'[t].pc = "disc_client" => conn'[job[t].victim] = "closing"
  <2>1. job[t].victim \in Sids
    BY <1>1, <1>3 DEF AllEquipped, Equipped, VictimPcs
  <2>2. CASE EvictError(t)
    BY <1>1, <2>2, ReturnJob DEF EvictError
  <2>3. CASE Evict(t) /\ BeginClose(job[t].victim)
    BY <1>1, <2>1, <2>3 DEF BeginClose, Types
  <2>4. CASE Evict(t) /\ ~BeginClose(job[t].victim)
    BY <1>1, <2>1, <2>4, ReturnJob DEF Evict, IsOpen
  <2>. QED BY <1>3, <2>2, <2>3, <2>4, StepAt
<1>4. ASSUME job[t].pc = "disc_announce", job'[t].pc = "disc_forget"
      PROVE  sidToUser'[job[t].victim] = NoUser
  <2>1. job[t].victim \in Sids
    BY <1>1, <1>4 DEF AllEquipped, Equipped, VictimPcs
  <2>2. CASE DiscUnregister(t)
    BY <1>1, <2>1, <2>2 DEF DiscUnregister, Reg!Disconnect, RegInv, Reg!TypeOK
  <2>3. CASE DiscAnnounce(t)
    <3>1. PICK r \in job[t].rooms : job' = [job EXCEPT ![t].rooms = @ \ {r}]
      BY <2>3 DEF DiscAnnounce
    <3>2. job'[t].pc = job[t].pc
      BY <1>1, <3>1 DEF Types, Job
    <3>. QED BY <1>4, <3>2
  <2>. QED BY <1>4, <2>2, <2>3, StepAt
<1>5. ASSUME job[t].pc = "join_enter", job'[t].pc = "join_add"
      PROVE  job[t].sid \in members'[job[t].room]
  <2>1. JoinEnter(t) /\ job[t].room \in Rooms
    BY <1>1, <1>5, StepAt DEF AllEquipped, Equipped, RoomPcs
  <2>2. ~Finish(t)
    BY <1>1, <1>5, FinishJob, IdleJob
  <2>. QED BY <1>1, <2>1, <2>2 DEF JoinEnter, Types
<1>6. ASSUME job[t].pc = "join_announce", auth[job[t].sid] \in Users
      PROVE  job[t].room \in shown'[auth[job[t].sid]]
  BY <1>1, <1>6, StepAt DEF JoinAnnounce, Types
<1>7. ASSUME job[t].pc = "leave_remove", NEW s \in Sids, NEW r \in Rooms,
             s = job[t].sid, r = job[t].room
      PROVE  ~Reg!IsInRoom(s, r)'
  <2>1. Reg!RemoveRoom(s, r)
    BY <1>7, StepAt DEF LeaveRemove
  <2>. QED BY <1>1, <2>1, RegistryAdmits
<1>. QED BY <1>2, <1>3, <1>4, <1>5, <1>6, <1>7 DEF Achieved

LEMMA StepMoves ==
  ASSUME Inv, NEW t \in Threads, Begin(t) \/ Step(t)
  PROVE  Moves(t)
BY ControlFlow, AchievedStep, ConnStep, IndexStep, AdmitStep, MemberStep, ShownStep DEF Moves

(* The same control, read backwards: what came before a place, and what a  *)
(* step does to the arguments of its handler.                              *)
LEMMA Before ==
  ASSUME NEW t \in Threads, Control(t)
  PROVE  /\ job'[t].pc = "register" => Handshakes(t)
         /\ job'[t].pc \in DiscPcs =>
              Loses(t) \/ (/\ job'[t].victim = job[t].victim /\ job'[t].sid = job[t].sid
                           /\ \/ job[t].pc = "evict" /\ job'[t].pc = "disc_client"
                              \/ job[t].pc \in DiscPcs)
         /\ job'[t].pc = "disc_forget" =>
              job[t].pc = "disc_announce" /\ job'[t].victim = job[t].victim
         /\ job'[t].pc = "join_enter" => Requests(t)
         /\ job'[t].pc = "join_add" =>
              job[t].pc = "join_enter" /\ job'[t].sid = job[t].sid /\ job'[t].room = job[t].room
         /\ job'[t].pc = "join_announce" => job[t].pc = "join_add"
         /\ job'[t].pc = "leave_manager" =>
              job[t].pc = "leave_remove" /\ job'[t].sid = job[t].sid /\ job'[t].room = job[t].room
         /\ job'[t].pc = "leave_announce" =>
              job[t].pc = "leave_manager" /\ job'[t].sid = job[t].sid /\ job'[t].room = job[t].room
         /\ job[t].pc = "join_add" => job'[t].sid = job[t].sid /\ job'[t].room = job[t].room
         /\ job'[t].sid \in {job[t].sid, NoSid} \/ Handshakes(t) \/ Requests(t)
BY IdleJob DEF Control, Handshakes, Loses, Requests, ShutsDown, Chooses, TurnsTo, Turns, Ends,
  Lasts, Begun, DiscPcs

LEMMA ClosingStep ==
  ASSUME Inv, Closing, NEW t \in Threads, Moves(t)
  PROVE  Closing'
<1> SUFFICES ASSUME NEW o \in Threads, job'[o].pc \in DiscPcs
             PROVE  conn'[job'[o].victim] \in {"closing", "gone"}
  BY DEF Closing
<1>1. Moved(t) /\ Control(t) /\ ConnMoves(t) /\ Achieved(t)
  BY DEF Moves
<1>2. ASSUME job[o].pc \in DiscPcs
      PROVE  conn'[job[o].victim] \in {"closing", "gone"}
  <2>1. job[o].victim \in Sids /\ conn[job[o].victim] \in {"closing", "gone"}
    BY <1>2 DEF Inv, SessInv, AllEquipped, Equipped, VictimPcs, DiscPcs, Closing
  <2>. QED BY <1>1, <2>1 DEF ConnMoves, IsOpen
<1>3. CASE o # t
  BY <1>1, <1>2, <1>3 DEF Moved
<1>4. CASE o = t
  <2>1. CASE Loses(t)
    BY <1>4, <2>1 DEF Loses, Begun
  <2>2. CASE job'[t].victim = job[t].victim /\ job[t].pc = "evict" /\ job'[t].pc = "disc_client"
    BY <1>1, <1>4, <2>2 DEF Achieved
  <2>3. CASE job'[t].victim = job[t].victim /\ job[t].pc \in DiscPcs
    BY <1>2, <1>4, <2>3
  <2>. QED BY <1>1, <1>4, <2>1, <2>2, <2>3, Before
<1>. QED BY <1>3, <1>4

LEMMA AuthStep ==
  ASSUME Inv, Closing, AuthKnown, NEW t \in Threads, Moves(t)
  PROVE  AuthKnown'
<1> SUFFICES ASSUME NEW s \in Sids
             PROVE  /\ conn'[s] = "unused" => auth'[s] = NoUser
                    /\ conn'[s] # "unused" => auth'[s] \in Users
  BY DEF AuthKnown
<1>1. /\ conn[s] = "unused" => auth[s] = NoUser
      /\ conn[s] # "unused" => auth[s] \in Users
  BY DEF AuthKnown
<1>2. \/ auth'[s] = auth[s] /\ ~(conn[s] = "unused" /\ conn'[s] = "connecting")
      \/ conn[s] = "unused" /\ conn'[s] = "connecting" /\ auth'[s] \in Users
  BY DEF Moves, AuthMoves
<1>3. /\ conn'[s] = "unused" => conn[s] = "unused"
      /\ conn[s] = "unused" => conn'[s] \in {"unused", "connecting"}
  <2>1. conn[s] = "unused" => ~(job[t].pc = "disc_forget" /\ job[t].victim = s)
    BY DEF Closing, DiscPcs
  <2>. QED BY <2>1 DEF Moves, ConnMoves, IsOpen
<1>. QED BY <1>1, <1>2, <1>3

(* The answer of a request comes before the client's next request, and a   *)
(* session's first request comes after its handshake.                      *)
LEMMA OneRequestStep ==
  ASSUME Inv, OneRequest, "pipelining" \notin Allowed, NEW t \in Threads, Moves(t)
  PROVE  OneRequest'
<1>1. Moved(t) /\ Control(t)
  BY DEF Moves
<1>2. ASSUME NEW o \in Threads \ {t}, job'[t].sid # NoSid
      PROVE  job'[o].sid # job'[t].sid
  <2>1. job'[o] = job[o]
    BY <1>1 DEF Moved
  <2>2. CASE job'[t].sid = job[t].sid
    BY <1>2, <2>1, <2>2 DEF OneRequest
  <2>3. CASE Handshakes(t)
    BY <2>1, <2>3 DEF Handshakes, Begun, Inv, SessInv, Fresh
  <2>4. CASE Requests(t)
    BY <2>1, <2>4 DEF Requests, Begun
  <2>. QED BY <1>1, <1>2, <2>2, <2>3, <2>4, Before
<1>3. \A o \in Threads \ {t} : job'[o] = job[o]
  BY <1>1 DEF Moved
<1>. QED BY <1>2, <1>3 DEF OneRequest

LEMMA RoomsReceivedStep ==
  ASSUME Inv, RoomsReceived, Entered, Left, Dropped, NEW t \in Threads, Moves(t)
  PROVE  RoomsReceived'
<1> SUFFICES ASSUME NEW s \in Sids, NEW r \in Rooms, Reg!IsInRoom(s, r)'
             PROVE  s \in members'[r]
  BY DEF RoomsReceived
<1>1. /\ s \in members[r] =>
           \/ s \in members'[r]
           \/ job[t].pc = "leave_manager" /\ job[t].sid = s /\ job[t].room = r
           \/ job[t].pc = "disc_forget" /\ job[t].victim = s
  BY DEF Moves, MemberMoves
<1>2. \/ Reg!IsInRoom(s, r)
      \/ job[t].pc = "join_add" /\ job[t].sid = s /\ job[t].room = r /\ sidToUser[s] # NoUser
  BY DEF Moves, AdmitMoves
<1>3. CASE Reg!IsInRoom(s, r)
  BY <1>1, <1>3 DEF RoomsReceived, Left, Dropped
<1>4. CASE job[t].pc = "join_add" /\ job[t].sid = s /\ job[t].room = r /\ sidToUser[s] # NoUser
  BY <1>1, <1>4 DEF Entered
<1>. QED BY <1>2, <1>3, <1>4

LEMMA EnteredStep ==
  ASSUME Inv, OneRequest, Entered, Dropped, NEW t \in Threads, Moves(t)
  PROVE  Entered'
<1> SUFFICES ASSUME NEW o \in Threads, job'[o].pc = "join_add"
             PROVE  job'[o].sid \in members'[job'[o].room] \/ sidToUser'[job'[o].sid] = NoUser
  BY DEF Entered
<1>1. CASE o = t
  BY <1>1, Before DEF Moves, Achieved
<1>2. CASE o # t
  <2>1. job'[o] = job[o]
    BY <1>2 DEF Moves, Moved
  <2> DEFINE s == job[o].sid
             r == job[o].room
  <2>2. s \in Sids /\ r \in Rooms /\ s # NoSid
    BY <2>1, NullsAreFresh DEF Inv, SessInv, AllEquipped, Equipped, RoomPcs
  <2>3. job[t].sid # s
    BY <1>2, <2>2 DEF OneRequest
  <2>4. s \in members[r] \/ sidToUser[s] = NoUser
    BY <2>1 DEF Entered
  <2>5. sidToUser'[s] \in {sidToUser[s], NoUser}
    BY <2>2, <2>3 DEF Moves, IndexMoves
  <2>6. s \in members[r] => s \in members'[r] \/ (job[t].pc = "disc_forget" /\ job[t].victim = s)
    BY <2>2, <2>3 DEF Moves, MemberMoves
  <2>7. job[t].pc = "disc_forget" /\ job[t].victim = s => sidToUser[s] = NoUser
    BY <2>1 DEF Dropped
  <2>. QED BY <2>1, <2>4, <2>5, <2>6, <2>7
<1>. QED BY <1>1, <1>2

LEMMA LeftStep ==
  ASSUME Inv, OneRequest, Left, NEW t \in Threads, Moves(t)
  PROVE  Left'
<1> SUFFICES ASSUME NEW o \in Threads, job'[o].pc \in {"leave_manager", "leave_announce"},
                    NEW s \in Sids, NEW r \in Rooms, s = job'[o].sid, r = job'[o].room
             PROVE  ~Reg!IsInRoom(s, r)'
  <2>1. \A o \in Threads : job'[o].pc \in {"leave_manager", "leave_announce"} =>
          job'[o].sid \in Sids /\ job'[o].room \in Rooms
    <3>1. \A o \in Threads : job[o].pc \in RoomPcs => job[o].sid \in Sids /\ job[o].room \in Rooms
      BY DEF Inv, SessInv, AllEquipped, Equipped
    <3>. QED BY <3>1, Before DEF Moves, Moved, RoomPcs
  <2>. QED BY <2>1 DEF Left, Reg!IsInRoom, Reg!RoomsForSid, Reg!ClientOf
<1>1. Moved(t) /\ Control(t) /\ AdmitMoves(t) /\ Achieved(t)
  BY DEF Moves
<1>2. CASE o = t
  <2>1. CASE job'[t].pc = "leave_manager"
    BY <1>1, <1>2, <2>1, Before DEF Achieved
  <2>2. CASE job'[t].pc = "leave_announce"
    <3>1. job[t].pc = "leave_manager" /\ ~Reg!IsInRoom(s, r)
      BY <1>1, <1>2, <2>2, Before DEF Left
    <3>. QED BY <1>1, <3>1 DEF AdmitMoves
  <2>. QED BY <1>2, <2>1, <2>2
<1>3. CASE o # t
  <2>1. job'[o] = job[o]
    BY <1>1, <1>3 DEF Moved
  <2>2. ~Reg!IsInRoom(s, r)
    BY <2>1 DEF Left
  <2>3. job[t].sid # s
    BY <1>3, <2>1, NullsAreFresh DEF OneRequest
  <2>. QED BY <1>1, <2>2, <2>3 DEF AdmitMoves
<1>. QED BY <1>2, <1>3

LEMMA DroppedStep ==
  ASSUME Inv, Closing, Dropped, NEW t \in Threads, Moves(t)
  PROVE  Dropped'
<1>1. Moved(t) /\ Control(t) /\ AdmitMoves(t) /\ IndexMoves(t) /\ Achieved(t)
  BY DEF Moves
<1> SUFFICES ASSUME NEW o \in Threads, job'[o].pc = "disc_forget",
                    NEW v \in Sids, v = job'[o].victim
             PROVE  /\ \A r \in Rooms : ~Reg!IsInRoom(v, r)'
                    /\ \/ sidToUser'[v] = NoUser
                       \/ \A p \in Threads :
                            job'[p].sid = v => job'[p].pc \notin {"join_enter", "join_add"}
  <2>1. \A o \in Threads : job'[o].pc = "disc_forget" => job'[o].victim \in Sids
    <3>1. \A o \in Threads : job[o].pc \in VictimPcs => job[o].victim \in Sids
      BY DEF Inv, SessInv, AllEquipped, Equipped
    <3>. QED BY <1>1, <3>1, Before DEF Moved, VictimPcs
  <2>. QED BY <2>1 DEF Dropped, Reg!IsInRoom, Reg!RoomsForSid, Reg!ClientOf
<1>2. CASE o = t
  <2>1. sidToUser'[v] = NoUser
    BY <1>1, <1>2, Before DEF Achieved
  <2>. QED BY <2>1 DEF Reg!IsInRoom, Reg!RoomsForSid, Reg!ClientOf
<1>3. CASE o # t
  <2>1. job'[o] = job[o] /\ job[o].pc = "disc_forget" /\ job[o].victim = v
    BY <1>1, <1>3 DEF Moved
  <2>2. conn[v] # "live"
    BY <2>1 DEF Closing, DiscPcs
  <2>3. /\ \A r \in Rooms : ~Reg!IsInRoom(v, r)
        /\ \/ sidToUser[v] = NoUser
           \/ \A p \in Threads : job[p].sid = v => job[p].pc \notin {"join_enter", "join_add"}
    BY <2>1 DEF Dropped
  <2>4. \A r \in Rooms : ~Reg!IsInRoom(v, r)'
    BY <1>1, <2>3 DEF AdmitMoves
  <2>5. CASE sidToUser[v] = NoUser /\ ~(job[t].pc = "register" /\ job[t].sid = v)
    BY <1>1, <2>4, <2>5 DEF IndexMoves
  <2>6. CASE job[t].pc = "register" /\ job[t].sid = v
    <3>1. \A p \in Threads \ {t} : job'[p].sid # v
      BY <1>1, <2>6 DEF Inv, SessInv, Handshake, Moved
    <3>2. job'[t].pc \notin {"join_enter", "join_add"}
      BY <1>1, <2>6, Before, IdleJob DEF Requests, Begun
    <3>. QED BY <2>4, <3>1, <3>2
  <2>7. CASE \A p \in Threads : job[p].sid = v => job[p].pc \notin {"join_enter", "join_add"}
    <3>1. job'[t].sid = v => job'[t].pc # "join_enter"
      BY <1>1, <2>2, Before DEF Requests, Begun
    <3>2. job'[t].sid = v => job'[t].pc # "join_add"
      BY <1>1, <2>7, Before
    <3>. QED BY <1>1, <2>4, <2>7, <3>1, <3>2 DEF Moved
  <2>. QED BY <2>3, <2>5, <2>6, <2>7
<1>. QED BY <1>2, <1>3

LEMMA AnnouncedStep ==
  ASSUME Inv, Closing, AuthKnown, Left, Announced, NEW t \in Threads, Moves(t)
  PROVE  Announced'
<1>1. /\ Moved(t) /\ Control(t) /\ ConnMoves(t) /\ AuthMoves /\ AdmitMoves(t) /\ ShownMoves(t)
      /\ Achieved(t)
  BY DEF Moves
<1> SUFFICES ASSUME NEW s \in Sids, NEW r \in Rooms,
                    IsOpen(s)', OnlySession(s)', Reg!IsInRoom(s, r)'
             PROVE  \/ r \in shown'[auth'[s]]
                    \/ \E p \in Threads : /\ job'[p].pc = "join_announce"
                                          /\ job'[p].sid = s /\ job'[p].room = r
  BY DEF Announced
<1>2. conn[s] # "unused"
  <2>1. conn[s] = "unused" => sidToUser[s] = NoUser
    BY DEF Inv, SessInv, Fresh
  <2>2. sidToUser[s] = NoUser => ~Reg!IsInRoom(s, r)
    BY DEF Reg!IsInRoom, Reg!RoomsForSid, Reg!ClientOf
  <2>. QED BY <1>1, <2>1, <2>2 DEF AdmitMoves
<1>3. IsOpen(s)
  BY <1>1, <1>2 DEF ConnMoves, IsOpen
<1>4. auth'[s] = auth[s] /\ auth[s] \in Users
  BY <1>1, <1>2 DEF AuthMoves, AuthKnown
<1>5. OnlySession(s)
  <2> SUFFICES ASSUME NEW o \in Sids \ {s} PROVE auth[o] # auth[s]
    BY DEF OnlySession
  <2>1. auth'[o] # auth[s]
    BY <1>4 DEF OnlySession
  <2>2. auth'[o] = auth[o] \/ auth[o] = NoUser
    BY <1>1 DEF AuthMoves, AuthKnown
  <2>. QED BY <1>4, <2>1, <2>2, NullsAreFresh
<1>6. CASE r \in shown[auth[s]] /\ Reg!IsInRoom(s, r)
  <2>1. job[t].pc = "leave_announce" /\ job[t].room = r => auth[job[t].sid] # auth[s]
    <3>1. ASSUME job[t].pc = "leave_announce", job[t].room = r
          PROVE  job[t].sid \in Sids \ {s}
      BY <1>6, <3>1 DEF Inv, SessInv, AllEquipped, Equipped, RoomPcs, Left
    <3>. QED BY <1>5, <3>1 DEF OnlySession
  <2>2. job[t].pc = "disc_announce" => auth[job[t].victim] # auth[s]
    <3>1. ASSUME job[t].pc = "disc_announce"
          PROVE  job[t].victim \in Sids \ {s}
      BY <1>3, <3>1 DEF Inv, SessInv, AllEquipped, Equipped, VictimPcs, Closing, DiscPcs, IsOpen
    <3>. QED BY <1>5, <3>1 DEF OnlySession
  <2>. QED BY <1>1, <1>4, <1>6, <2>1, <2>2 DEF ShownMoves
<1>7. ASSUME NEW p \in Threads, job[p].pc = "join_announce", job[p].sid = s, job[p].room = r
      PROVE  \/ r \in shown'[auth'[s]]
             \/ job'[p].pc = "join_announce" /\ job'[p].sid = s /\ job'[p].room = r
  <2>1. CASE p = t
    BY <1>1, <1>4, <1>7, <2>1 DEF Achieved
  <2>2. CASE p # t
    BY <1>1, <1>7, <2>2 DEF Moved
  <2>. QED BY <2>1, <2>2
<1>8. CASE ~Reg!IsInRoom(s, r)
  BY <1>1, <1>8, Before DEF AdmitMoves
<1>9. CASE Reg!IsInRoom(s, r)
  <2>1. \/ r \in shown[auth[s]]
        \/ \E p \in Threads : job[p].pc = "join_announce" /\ job[p].sid = s /\ job[p].room = r
    BY <1>3, <1>5, <1>9 DEF Announced
  <2>. QED BY <1>6, <1>7, <1>9, <2>1
<1>. QED BY <1>8, <1>9

-----------------------------------------------------------------------------
(* Ghosts: without early losses, nothing happens to a session before its   *)
(* connect().                                                              *)

LEMMA SparedStep ==
  ASSUME NEW s \in Sids, Spared(s), sidToUser[s] = NoUser, conn[s] # "live",
         "early_loss" \notin Allowed, NEW t \in Threads, Moves(t)
  PROVE  Spared(s)'
<1>1. Moved(t) /\ Control(t)
  BY DEF Moves
<1>2. job[t].victim # s /\ s \notin job[t].todo
  BY DEF Spared
<1>3. job'[t].victim # s /\ s \notin job'[t].todo
  <2>1. CASE Handshakes(t) \/ Requests(t)
    BY <2>1, NullsAreFresh DEF Handshakes, Requests, Begun
  <2>2. CASE Loses(t)
    BY <2>2 DEF Loses, Begun
  <2>3. CASE ShutsDown(t)
    BY <2>3, NullsAreFresh DEF ShutsDown
  <2>4. CASE Chooses(t)
    BY <1>2, <2>4 DEF Chooses
  <2>5. CASE TurnsTo(t)
    BY <1>2, <2>5 DEF TurnsTo
  <2>6. CASE Ends(t)
    BY <1>2, <2>6, NullsAreFresh DEF Ends
  <2>. QED BY <1>1, <2>1, <2>2, <2>3, <2>4, <2>5, <2>6 DEF Control
<1>4. \A o \in Threads \ {t} : job'[o] = job[o]
  BY <1>1 DEF Moved
<1>. QED BY <1>3, <1>4 DEF Spared

LEMMA UndisturbedStep ==
  ASSUME Inv, Undisturbed, "early_loss" \notin Allowed, NEW t \in Threads, Moves(t)
  PROVE  Undisturbed'
<1>1. Moved(t) /\ Control(t) /\ ConnMoves(t)
  BY DEF Moves
<1>2. ASSUME NEW s \in Sids, conn[s] = "unused"
      PROVE  Spared(s)'
  <2>1. Spared(s) /\ sidToUser[s] = NoUser
    BY <1>2 DEF Undisturbed, Inv, SessInv, Fresh
  <2>. QED BY <1>2, <2>1, SparedStep
<1>3. ASSUME NEW s \in Sids, conn'[s] = "unused"
      PROVE  conn[s] = "unused"
  BY <1>1, <1>3 DEF ConnMoves
<1>4. ASSUME NEW o \in Threads, job'[o].pc = "register", NEW s \in Sids, s = job'[o].sid
      PROVE  conn'[s] = "connecting" /\ Spared(s)'
  <2>1. CASE o = t
    <3>1. Handshakes(t)
      BY <1>1, <1>4, <2>1, Before
    <3>2. conn[s] = "unused" /\ conn'[s] = "connecting"
      BY <1>4, <2>1, <3>1 DEF Handshakes, Begun
    <3>. QED BY <1>2, <3>2
  <2>2. CASE o # t
    <3>1. job'[o] = job[o]
      BY <1>1, <2>2 DEF Moved
    <3>2. conn[s] = "connecting" /\ Spared(s)
      BY <1>4, <3>1 DEF Undisturbed
    <3>3. sidToUser[s] = NoUser /\ job[t].sid # s
      BY <1>4, <2>2, <3>1 DEF Inv, SessInv, Handshake
    <3>4. Spared(s)'
      BY <3>2, <3>3, SparedStep
    <3>5. job[t].victim # s /\ job'[t].victim # s
      BY <3>2, <3>4 DEF Spared
    <3>. QED BY <1>1, <3>2, <3>3, <3>4, <3>5 DEF ConnMoves
  <2>. QED BY <2>1, <2>2
<1>5. \A o \in Threads : job'[o].pc = "register" => job'[o].sid \in Sids
  <2>1. \A o \in Threads : job[o].pc = "register" => job[o].sid \in Sids
    BY DEF Inv, SessInv, AllEquipped, Equipped
  <2>2. job'[t].pc = "register" => job'[t].sid \in Sids
    BY <1>1, Before DEF Handshakes, Begun
  <2>. QED BY <1>1, <2>1, <2>2 DEF Moved
<1>. QED BY <1>2, <1>3, <1>4, <1>5 DEF Undisturbed, Spared

LEMMA UnregisteredStep ==
  ASSUME Inv, Undisturbed, Unregistered, NEW t \in Threads, Moves(t)
  PROVE  Unregistered'
<1>1. Moved(t) /\ Control(t) /\ IndexMoves(t) /\ Achieved(t)
  BY DEF Moves
<1> SUFFICES ASSUME NEW o \in Threads, job'[o].pc = "disc_forget"
             PROVE  sidToUser'[job'[o].victim] = NoUser
  BY DEF Unregistered
<1>2. CASE o = t
  BY <1>1, <1>2, Before DEF Achieved
<1>3. CASE o # t
  <2>1. job'[o] = job[o]
    BY <1>1, <1>3 DEF Moved
  <2>2. sidToUser[job[o].victim] = NoUser /\ job[o].victim \in Sids
    BY <2>1 DEF Unregistered, Inv, SessInv, AllEquipped, Equipped, VictimPcs
  <2>3. ~(job[t].pc = "register" /\ job[t].sid = job[o].victim)
    BY DEF Undisturbed, Spared
  <2>. QED BY <1>1, <2>1, <2>2, <2>3 DEF IndexMoves
<1>. QED BY <1>2, <1>3

LEMMA NoGhostStep ==
  ASSUME Inv, Undisturbed, Unregistered, NoGhost, NEW t \in Threads, Moves(t)
  PROVE  NoGhost'
<1>1. ConnMoves(t) /\ AuthMoves /\ IndexMoves(t)
  BY DEF Moves
<1> SUFFICES ASSUME NEW s \in Sids, sidToUser'[s] # NoUser
             PROVE  /\ conn'[s] \in {"connecting", "live", "closing"}
                    /\ sidToUser'[s] = auth'[s]
  BY DEF NoGhost
<1>2. CASE sidToUser'[s] = sidToUser[s]
  <2>1. conn[s] \in {"connecting", "live", "closing"} /\ sidToUser[s] = auth[s]
    BY <1>2 DEF NoGhost
  <2>2. ~(job[t].pc = "disc_forget" /\ job[t].victim = s)
    BY <1>2 DEF Unregistered
  <2>. QED BY <1>1, <1>2, <2>1, <2>2 DEF ConnMoves, AuthMoves
<1>3. CASE job[t].pc = "register" /\ job[t].sid = s /\ sidToUser'[s] = auth[s]
  <2>1. conn[s] = "connecting"
    BY <1>3 DEF Undisturbed
  <2>. QED BY <1>1, <1>3, <2>1 DEF ConnMoves, AuthMoves
<1>. QED BY <1>1, <1>2, <1>3 DEF IndexMoves

-----------------------------------------------------------------------------
(* Superseded sessions: as long as server.disconnect() does not fail, the  *)
(* handler that superseded a session closes it before it goes on.          *)

LEMMA RunningStep ==
  ASSUME Running, "shutdown" \notin Allowed, NEW t \in Threads, Moves(t)
  PROVE  Running'
<1>1. Moved(t) /\ Control(t)
  BY DEF Moves
<1>2. job'[t].pc # "next_victim" /\ ~job'[t].stopping
  BY <1>1 DEF Running, Control, Handshakes, Loses, Requests, ShutsDown, Chooses, TurnsTo, Turns,
    Ends, Begun
<1>. QED BY <1>1, <1>2 DEF Running, Moved

LEMMA AnsweredStep ==
  ASSUME Inv, Closing, Running, Answered, "evict_error" \notin Allowed,
         NEW t \in Threads, Moves(t)
  PROVE  Answered'
<1>1. /\ Moved(t) /\ ConnMoves(t) /\ AuthMoves /\ IndexMoves(t) /\ Achieved(t)
  BY DEF Moves
<1> SUFFICES ASSUME NEW s \in Sids, IsOpen(s)'
             PROVE  \/ sidToUser'[s] = auth'[s]
                    \/ \E p \in Threads : \/ job'[p].pc = "register" /\ job'[p].sid = s
                                          \/ job'[p].pc = "evict" /\ job'[p].victim = s
  BY DEF Answered
<1>2. CASE ~IsOpen(s)
  <2>1. job'[t].pc = "register" /\ job'[t].sid = s
    BY <1>1, <1>2 DEF ConnMoves, IsOpen
  <2>. QED BY <2>1
<1>3. CASE IsOpen(s)
  <2>1. auth'[s] = auth[s]
    BY <1>1, <1>3 DEF AuthMoves, IsOpen
  <2>2. CASE sidToUser[s] = auth[s]
    <3>1. ~(job[t].pc = "disc_announce" /\ job[t].victim = s)
      BY <1>3 DEF Closing, DiscPcs, IsOpen
    <3>2. job[t].pc # "next_victim"
      BY DEF Running
    <3>. QED BY <1>1, <2>1, <2>2, <3>1, <3>2 DEF IndexMoves
  <2>3. ASSUME NEW p \in Threads, job[p].pc = "register", job[p].sid = s
        PROVE  sidToUser'[s] = auth'[s] \/ (job'[p].pc = "register" /\ job'[p].sid = s)
    <3>1. CASE p = t
      BY <1>1, <2>1, <2>3, <3>1 DEF Achieved
    <3>2. CASE p # t
      BY <1>1, <2>3, <3>2 DEF Moved
    <3>. QED BY <3>1, <3>2
  <2>4. ASSUME NEW p \in Threads, job[p].pc = "evict", job[p].victim = s
        PROVE  job'[p].pc = "evict" /\ job'[p].victim = s
    <3>1. p # t
      BY <1>1, <2>4 DEF Achieved, IsOpen
    <3>. QED BY <1>1, <2>4, <3>1 DEF Moved
  <2>. QED BY <1>3, <2>2, <2>3, <2>4 DEF Answered
<1>. QED BY <1>2, <1>3

-----------------------------------------------------------------------------
LEMMA InitCircumstances == Init => SerialInv /\ LossInv /\ EvictInv
<1> SUFFICES ASSUME Init PROVE SerialInv /\ LossInv /\ EvictInv
  OBVIOUS
<1>1. /\ \A t \in Threads : job[t] = Idle
      /\ \A s \in Sids : conn[s] = "unused" /\ auth[s] = NoUser /\ sidToUser[s] = NoUser
  BY DEF Init, Reg!Init
<1>2. \A s \in Sids, r \in Rooms : ~Reg!IsInRoom(s, r)
  BY <1>1 DEF Reg!IsInRoom, Reg!RoomsForSid, Reg!ClientOf
<1>3. Closing /\ AuthKnown /\ Entered /\ Left /\ Dropped
  BY <1>1, IdleJob DEF Closing, DiscPcs, AuthKnown, Entered, Left, Dropped
<1>4. OneRequest /\ RoomsReceived /\ Announced
  BY <1>1, <1>2, IdleJob DEF OneRequest, RoomsReceived, Announced
<1>5. Undisturbed /\ Unregistered /\ NoGhost
  BY <1>1, IdleJob, NullsAreFresh DEF Undisturbed, Spared, Unregistered, NoGhost
<1>6. Running /\ Answered
  BY <1>1, IdleJob DEF Running, Answered, IsOpen
<1>. QED BY <1>3, <1>4, <1>5, <1>6 DEF SerialInv, LossInv, EvictInv

LEMMA StutterCircumstances ==
  ASSUME UNCHANGED vars
  PROVE  /\ SerialInv => SerialInv'
         /\ LossInv => LossInv'
         /\ EvictInv => EvictInv'
BY DEF vars, SerialInv, LossInv, EvictInv, Closing, AuthKnown, OneRequest, RoomsReceived, Entered,
  Left, Dropped, Announced, Undisturbed, Spared, Unregistered, NoGhost, Running, Answered, IsOpen,
  OnlySession, Reg!IsInRoom, Reg!RoomsForSid, Reg!ClientOf

LEMMA SerialNext ==
  ASSUME "pipelining" \notin Allowed
  PROVE  Inv /\ SerialInv /\ [Next]_vars => SerialInv'
<1>1. ASSUME Inv, SerialInv, NEW t \in Threads, Begin(t) \/ Step(t)
      PROVE  SerialInv'
  <2>1. Moves(t)
    BY <1>1, StepMoves
  <2>. QED BY <1>1, <2>1, ClosingStep, AuthStep, OneRequestStep, RoomsReceivedStep, EnteredStep,
    LeftStep, DroppedStep, AnnouncedStep DEF SerialInv
<1>. QED BY <1>1, StutterCircumstances DEF Next

LEMMA LossNext ==
  ASSUME "early_loss" \notin Allowed
  PROVE  Inv /\ LossInv /\ [Next]_vars => LossInv'
<1>1. ASSUME Inv, LossInv, NEW t \in Threads, Begin(t) \/ Step(t)
      PROVE  LossInv'
  <2>1. Moves(t)
    BY <1>1, StepMoves
  <2>. QED BY <1>1, <2>1, UndisturbedStep, UnregisteredStep, NoGhostStep DEF LossInv
<1>. QED BY <1>1, StutterCircumstances DEF Next

LEMMA EvictNext ==
  ASSUME "evict_error" \notin Allowed, "shutdown" \notin Allowed
  PROVE  Inv /\ EvictInv /\ [Next]_vars => EvictInv'
<1>1. ASSUME Inv, EvictInv, NEW t \in Threads, Begin(t) \/ Step(t)
      PROVE  EvictInv'
  <2>1. Moves(t)
    BY <1>1, StepMoves
  <2>. QED BY <1>1, <2>1, ClosingStep, RunningStep, AnsweredStep DEF EvictInv
<1>. QED BY <1>1, StutterCircumstances DEF Next

(* Clients that wait for each answer: once a session is quiet, the server  *)
(* delivers exactly the rooms to it that the registry lets it send to,     *)
(* even when connections are lost early, evictions fail or the processor   *)
(* is replaced (events.py:122, 165-169, 307-312).                          *)
THEOREM ViewsAgree ==
  ASSUME "pipelining" \notin Allowed
  PROVE  Spec => []MembershipAgrees
<1>1. Inv => NoHiddenReceiver
  BY DEF Inv, SessInv, Explained, Denied, Settles, NoHiddenReceiver, Quiet, Concerns
<1>2. Inv /\ SerialInv => MembershipAgrees
  BY <1>1 DEF SerialInv, RoomsReceived, NoHiddenReceiver, MembershipAgrees
<1>3. Init => Inv /\ SerialInv
  BY InitInv, InitCircumstances
<1>4. Inv /\ SerialInv /\ [Next]_vars => Inv' /\ SerialInv'
  BY NextInv, SerialNext
<1>. QED BY <1>2, <1>3, <1>4, PTL DEF Spec

(* ... and the peers were told of every room of a quiet session whose user *)
(* has had no other one: neither a late room.left of its own nor one of a  *)
(* disconnect overtakes the room.joined (events.py:104-120, 177-190,       *)
(* 314-334).                                                               *)
THEOREM PeersKnowMembers ==
  ASSUME "pipelining" \notin Allowed
  PROVE  Spec => []MembersAnnounced
<1>1. Inv /\ SerialInv => MembersAnnounced
  <2> SUFFICES ASSUME Inv, SerialInv, NEW s \in Sids,
                      conn[s] = "live", Quiet(s), OnlySession(s), NEW r \in Reg!RoomsForSid(s)
               PROVE  r \in shown[auth[s]]
    BY DEF MembersAnnounced
  <2>1. r \in Rooms /\ Reg!IsInRoom(s, r)
    BY DEF Inv, RegInv, Reg!TypeOK, Reg!IsInRoom, Reg!RoomsForSid, Reg!ClientOf, Reg!ClientState
  <2>. QED BY <2>1 DEF SerialInv, Announced, IsOpen, Quiet, Concerns
<1>2. Init => Inv /\ SerialInv
  BY InitInv, InitCircumstances
<1>3. Inv /\ SerialInv /\ [Next]_vars => Inv' /\ SerialInv'
  BY NextInv, SerialNext
<1>. QED BY <1>1, <1>2, <1>3, PTL DEF Spec

(* A registered session is one the server knows, under the user that       *)
(* authenticated it: pipelined requests, failing evictions and shutdowns   *)
(* leave no ghost, only a connection lost during its own connect handler   *)
(* does (events.py:73-77, 122).                                            *)
THEOREM NoGhostRemains ==
  ASSUME "early_loss" \notin Allowed
  PROVE  Spec => []NoGhost
<1>1. LossInv => NoGhost
  BY DEF LossInv
<1>2. Init => Inv /\ LossInv
  BY InitInv, InitCircumstances
<1>3. Inv /\ LossInv /\ [Next]_vars => Inv' /\ LossInv'
  BY NextInv, LossNext
<1>. QED BY <1>1, <1>2, <1>3, PTL DEF Spec

(* A live session nobody works on is the one its user is registered with:  *)
(* a superseded session does not survive its successor's handshake, as     *)
(* long as evictions succeed and the registry is not cleared by a shutdown *)
(* (events.py:79-88, registry.py:31-32).                                   *)
THEOREM SupersededIsClosed ==
  ASSUME "evict_error" \notin Allowed, "shutdown" \notin Allowed
  PROVE  Spec => []LiveIsRegistered
<1>1. EvictInv => LiveIsRegistered
  BY DEF EvictInv, Answered, LiveIsRegistered, IsOpen, Quiet, Concerns
<1>2. Init => Inv /\ EvictInv
  BY InitInv, InitCircumstances
<1>3. Inv /\ EvictInv /\ [Next]_vars => Inv' /\ EvictInv'
  BY NextInv, EvictNext
<1>. QED BY <1>1, <1>2, <1>3, PTL DEF Spec
=============================================================================
