---------------------------- MODULE RoomSessions ----------------------------
(***************************************************************************)
(* The connection and room handlers of events.py, and the disconnection of *)
(* all clients at processor shutdown, over the client registry and the     *)
(* Socket.IO server.                                                       *)
(*                                                                         *)
(* The server runs with async_mode="threading": each handler runs in a     *)
(* thread of its own, and a handler holds no lock between its calls.  So a *)
(* handler is a job of a thread, and one step of a job is one call that    *)
(* reads or changes shared state: a registry method (under its lock), a    *)
(* call of the Socket.IO server, or one emit.                              *)
(*                                                                         *)
(* Membership is kept twice: the registry's active_rooms decide whether a  *)
(* client may send to a room, the server's room table decides who receives *)
(* an emit.  The properties are about the two, and about sessions the      *)
(* registry and the server could see differently.                          *)
(*                                                                         *)
(* Left out: request validation (a malformed request changes nothing), the *)
(* history answer of join_room and send_event (module EventDelivery).      *)
(***************************************************************************)
CONSTANTS
  Users, Sids, Rooms, NoSid, NoUser, NoClient,
  NoRoom,
  Threads,    \* handler threads that can be active at the same time
  Allowed     \* what the environment may do, see Circumstances

Circumstances ==
  {"pipelining",     \* a client issues a request before the last was answered
   "early_loss",     \* a connection is lost during its connect handler
   "evict_error",    \* server.disconnect() of a superseded session raises
   "shutdown"}       \* the processor is shut down, and another one started

ASSUME AllowedKnown == Allowed \subseteq Circumstances
ASSUME NoRoomFresh == NoRoom \notin Rooms

VARIABLES
  users, sidToUser,   \* the registry
  conn,       \* conn[s]: the server's view of session s
  auth,       \* auth[s]: the user id in the auth payload of session s
  members,    \* members[r]: the sessions the server emits room r to
  shown,      \* shown[u]: the rooms whose last announcement about u was room.joined
  job         \* job[t]: what thread t is doing

serverVars == <<conn, auth, members>>
vars == <<users, sidToUser, conn, auth, members, shown, job>>

Reg == INSTANCE ClientRegistry

ASSUME NullsAreFresh ==
  NoSid \notin Sids /\ NoUser \notin Users /\ NoClient \notin Reg!ClientState

-----------------------------------------------------------------------------
(* Jobs *)

Pcs == {"idle",
        "register", "accept",                                 \* handle_connect
        "evict",                                              \* server.disconnect
        "disc_client", "disc_rooms", "disc_announce", "disc_forget", \* handle_disconnect
        "join_enter", "join_add", "join_announce",            \* handle_join_room
        "leave_remove", "leave_manager", "leave_announce",    \* handle_leave_room
        "next_victim"}                                        \* disconnect_all_clients

Job ==
  [pc : Pcs,
   sid : Sids \cup {NoSid},      \* request.sid of the connect, join or leave
   room : Rooms \cup {NoRoom},   \* the room of the join or leave
   victim : Sids \cup {NoSid},   \* the session being disconnected
   known : BOOLEAN,              \* handle_disconnect's client is not None
   rooms : SUBSET Rooms,         \* its rooms that are still to be announced
   todo : SUBSET Sids,           \* sessions shutdown still has to disconnect
   stopping : BOOLEAN]           \* the job is a shutdown

Idle == [pc |-> "idle", sid |-> NoSid, room |-> NoRoom, victim |-> NoSid,
         known |-> FALSE, rooms |-> {}, todo |-> {}, stopping |-> FALSE]

IsIdle(t) == job[t] = Idle

At(t, label) == job[t].pc = label

Start(t, j) == IsIdle(t) /\ job' = [job EXCEPT ![t] = j]

Goto(t, label) == job' = [job EXCEPT ![t].pc = label]

Finish(t) == job' = [job EXCEPT ![t] = Idle]

(* server.disconnect() returns to handle_connect, to the loop of           *)
(* disconnect_all_clients, or to the engine that noticed the loss.         *)
AfterDisconnect(t) ==
  job' = [job EXCEPT ![t] =
            IF job[t].sid # NoSid
            THEN [Idle EXCEPT !.pc = "accept", !.sid = job[t].sid]
            ELSE IF job[t].stopping
            THEN [Idle EXCEPT !.pc = "next_victim", !.todo = job[t].todo, !.stopping = TRUE]
            ELSE Idle]

Concerns(t, s) == job[t].sid = s \/ job[t].victim = s \/ s \in job[t].todo

Quiet(s) == \A t \in Threads : ~Concerns(t, s)

-----------------------------------------------------------------------------
(* The Socket.IO server (external): python-socketio's manager.             *)

IsOpen(s) == conn[s] \in {"connecting", "live"}

(* pre_disconnect: from here on s takes no new request and cannot be       *)
(* disconnected a second time, but it still receives what is emitted.      *)
BeginClose(s) == conn' = [conn EXCEPT ![s] = "closing"]

(* manager.disconnect: s leaves every room. *)
Forget(s) ==
  /\ conn' = [conn EXCEPT ![s] = "gone"]
  /\ members' = [r \in Rooms |-> members[r] \ {s}]

-----------------------------------------------------------------------------
Init ==
  /\ Reg!Init
  /\ conn = [s \in Sids |-> "unused"]
  /\ auth = [s \in Sids |-> NoUser]
  /\ members = [r \in Rooms |-> {}]
  /\ shown = [u \in Users |-> {}]
  /\ job = [t \in Threads |-> Idle]

-----------------------------------------------------------------------------
(* handle_connect *)

(* Mutant: a second handshake is accepted on a session in use. *)
ConnectBeginAgain(t, u, s) ==
  /\ conn[s] \in {"unused", "live"}
  /\ Start(t, [Idle EXCEPT !.pc = "register", !.sid = s])
  /\ conn' = [conn EXCEPT ![s] = "connecting"]
  /\ auth' = [auth EXCEPT ![s] = u]
  /\ UNCHANGED <<users, sidToUser, members, shown>>

(* A client's handshake: the server admits the sid and calls the handler.  *)
ConnectBegin(t, u, s) ==
  /\ conn[s] = "unused"
  /\ Start(t, [Idle EXCEPT !.pc = "register", !.sid = s])
  /\ conn' = [conn EXCEPT ![s] = "connecting"]
  /\ auth' = [auth EXCEPT ![s] = u]
  /\ UNCHANGED <<users, sidToUser, members, shown>>

(* Mutant: the sid that connect() returns is ignored. *)
RegisterNoEviction(t) ==
  /\ At(t, "register")
  /\ Reg!Connect(auth[job[t].sid], job[t].sid)
  /\ Goto(t, "accept")
  /\ UNCHANGED <<serverVars, shown>>

Register(t) ==
  LET s == job[t].sid
      old == Reg!OldSid(auth[s])
  IN /\ At(t, "register")
     /\ Reg!Connect(auth[s], s)
     /\ \/ old # NoSid /\ job' = [job EXCEPT ![t].pc = "evict", ![t].victim = old]
        \/ old = NoSid /\ Goto(t, "accept")
     /\ UNCHANGED <<serverVars, shown>>

(* The handler returns: the server confirms the connection to the client,  *)
(* which may now issue requests.                                           *)
Accept(t) ==
  LET s == job[t].sid
  IN /\ At(t, "accept")
     /\ conn' = [conn EXCEPT ![s] = IF @ = "connecting" THEN "live" ELSE @]
     /\ Finish(t)
     /\ UNCHANGED <<users, sidToUser, auth, members, shown>>

-----------------------------------------------------------------------------
(* server.disconnect(victim), and handle_disconnect which it calls inline. *)

(* Mutant: the session is marked, but not disconnected. *)
EvictOnlyMarks(t) ==
  LET v == job[t].victim
  IN /\ At(t, "evict")
     /\ conn' = [conn EXCEPT ![v] = IF IsOpen(v) THEN "closing" ELSE @]
     /\ AfterDisconnect(t)
     /\ UNCHANGED <<users, sidToUser, auth, members, shown>>

Evict(t) ==
  LET v == job[t].victim
  IN /\ At(t, "evict")
     /\ \/ /\ IsOpen(v)
           /\ BeginClose(v)
           /\ Goto(t, "disc_client")
        \/ /\ ~IsOpen(v)
           /\ AfterDisconnect(t)
           /\ UNCHANGED conn
     /\ UNCHANGED <<users, sidToUser, auth, members, shown>>

(* The exception is logged (handle_connect) or collected (shutdown).       *)
EvictError(t) ==
  /\ "evict_error" \in Allowed
  /\ At(t, "evict")
  /\ AfterDisconnect(t)
  /\ UNCHANGED <<users, sidToUser, serverVars, shown>>

(* The engine notices that the connection of s is lost or closed.          *)
Lose(t, s) ==
  /\ \/ conn[s] = "live"
     \/ conn[s] = "connecting" /\ "early_loss" \in Allowed
  /\ Start(t, [Idle EXCEPT !.pc = "disc_client", !.victim = s])
  /\ BeginClose(s)
  /\ UNCHANGED <<users, sidToUser, auth, members, shown>>

(* client = registry.get_by_sid(sid) *)
DiscClient(t) ==
  /\ At(t, "disc_client")
  /\ job' = [job EXCEPT ![t].pc = "disc_rooms",
                        ![t].known = Reg!ClientOf(job[t].victim) # NoClient]
  /\ UNCHANGED <<users, sidToUser, serverVars, shown>>

(* rooms = registry.rooms_for_sid(sid); announced only for a known client  *)
DiscRooms(t) ==
  /\ At(t, "disc_rooms")
  /\ job' = [job EXCEPT ![t].pc = "disc_announce",
                        ![t].rooms = IF job[t].known THEN Reg!RoomsForSid(job[t].victim) ELSE {}]
  /\ UNCHANGED <<users, sidToUser, serverVars, shown>>

DiscAnnounce(t) ==
  /\ At(t, "disc_announce")
  /\ \E r \in job[t].rooms :
       /\ shown' = [shown EXCEPT ![auth[job[t].victim]] = @ \ {r}]
       /\ job' = [job EXCEPT ![t].rooms = @ \ {r}]
  /\ UNCHANGED <<users, sidToUser, serverVars>>

(* Mutant: handle_disconnect announces but does not unregister. *)
DiscNotUnregistered(t) ==
  /\ At(t, "disc_announce")
  /\ job[t].rooms = {}
  /\ Goto(t, "disc_forget")
  /\ UNCHANGED <<users, sidToUser, serverVars, shown>>

DiscUnregister(t) ==
  /\ At(t, "disc_announce")
  /\ job[t].rooms = {}
  /\ Reg!Disconnect(job[t].victim)
  /\ Goto(t, "disc_forget")
  /\ UNCHANGED <<serverVars, shown>>

(* The handler has returned; the server drops the session. *)
DiscForget(t) ==
  /\ At(t, "disc_forget")
  /\ Forget(job[t].victim)
  /\ AfterDisconnect(t)
  /\ UNCHANGED <<users, sidToUser, auth, shown>>

-----------------------------------------------------------------------------
(* handle_join_room and handle_leave_room *)

(* A request reaches its handler while the session is live, and the        *)
(* handler's first call finds the client; otherwise nothing happens.       *)
Admitted(s) ==
  /\ conn[s] = "live"
  /\ Reg!ClientOf(s) # NoClient
  /\ \/ "pipelining" \in Allowed
     \/ \A t \in Threads : job[t].sid # s

(* Mutant: a room is not required; None is joined like any room. *)
JoinBeginNoRoom(t, s, r) ==
  /\ Admitted(s)
  /\ \E room \in {r, NoRoom} : Start(t, [Idle EXCEPT !.pc = "join_enter", !.sid = s, !.room = room])
  /\ UNCHANGED <<users, sidToUser, serverVars, shown>>

JoinBegin(t, s, r) ==
  /\ Admitted(s)
  /\ Start(t, [Idle EXCEPT !.pc = "join_enter", !.sid = s, !.room = r])
  /\ UNCHANGED <<users, sidToUser, serverVars, shown>>

(* join_room(room) raises for a session the server has dropped, and the    *)
(* handler ends there.                                                     *)
JoinEnter(t) ==
  LET s == job[t].sid
      r == job[t].room
  IN /\ At(t, "join_enter")
     /\ \/ /\ conn[s] # "gone"
           /\ members' = [members EXCEPT ![r] = @ \cup {s}]
           /\ Goto(t, "join_add")
        \/ /\ conn[s] = "gone"
           /\ Finish(t)
           /\ UNCHANGED members
     /\ UNCHANGED <<users, sidToUser, conn, auth, shown>>

(* Mutant: the room is entered but not added to the registry. *)
JoinNotAdded(t) ==
  /\ At(t, "join_add")
  /\ Goto(t, "join_announce")
  /\ UNCHANGED <<users, sidToUser, serverVars, shown>>

JoinAdd(t) ==
  /\ At(t, "join_add")
  /\ Reg!AddRoom(job[t].sid, job[t].room)
  /\ Goto(t, "join_announce")
  /\ UNCHANGED <<serverVars, shown>>

(* Mutant: no room.joined when the session is alone in the room. *)
JoinAnnounceToOthers(t) ==
  /\ At(t, "join_announce")
  /\ shown' = IF members[job[t].room] \subseteq {job[t].sid} THEN shown
              ELSE [shown EXCEPT ![auth[job[t].sid]] = @ \cup {job[t].room}]
  /\ Finish(t)
  /\ UNCHANGED <<users, sidToUser, serverVars>>

JoinAnnounce(t) ==
  /\ At(t, "join_announce")
  /\ shown' = [shown EXCEPT ![auth[job[t].sid]] = @ \cup {job[t].room}]
  /\ Finish(t)
  /\ UNCHANGED <<users, sidToUser, serverVars>>

LeaveBegin(t, s, r) ==
  /\ Admitted(s)
  /\ Start(t, [Idle EXCEPT !.pc = "leave_remove", !.sid = s, !.room = r])
  /\ UNCHANGED <<users, sidToUser, serverVars, shown>>

(* was_member = registry.remove_room(...): kept in job.known *)
LeaveRemove(t) ==
  LET s == job[t].sid
      r == job[t].room
  IN /\ At(t, "leave_remove")
     /\ Reg!RemoveRoom(s, r)
     /\ job' = [job EXCEPT ![t].pc = "leave_manager", ![t].known = Reg!IsInRoom(s, r)]
     /\ UNCHANGED <<serverVars, shown>>

(* Mutant: the registry is updated, the server's room is not. *)
LeaveRegistryOnly(t) ==
  /\ At(t, "leave_manager")
  /\ \/ job[t].known /\ Goto(t, "leave_announce")
     \/ ~job[t].known /\ Finish(t)
  /\ UNCHANGED <<users, sidToUser, serverVars, shown>>

LeaveManager(t) ==
  LET r == job[t].room
  IN /\ At(t, "leave_manager")
     /\ members' = [members EXCEPT ![r] = @ \ {job[t].sid}]
     /\ \/ job[t].known /\ Goto(t, "leave_announce")
        \/ ~job[t].known /\ Finish(t)
     /\ UNCHANGED <<users, sidToUser, conn, auth, shown>>

LeaveAnnounce(t) ==
  /\ At(t, "leave_announce")
  /\ shown' = [shown EXCEPT ![auth[job[t].sid]] = @ \ {job[t].room}]
  /\ Finish(t)
  /\ UNCHANGED <<users, sidToUser, serverVars>>

-----------------------------------------------------------------------------
(* SocketIOProcessor.shutdown: disconnect_all_clients, then clear          *)

ShutdownBegin(t) ==
  /\ "shutdown" \in Allowed
  /\ \A o \in Threads : ~job[o].stopping
  /\ Start(t, [Idle EXCEPT !.pc = "next_victim", !.todo = Reg!ActiveSids, !.stopping = TRUE])
  /\ UNCHANGED <<users, sidToUser, serverVars, shown>>

ShutdownNext(t) ==
  /\ At(t, "next_victim")
  /\ \E v \in job[t].todo :
       job' = [job EXCEPT ![t].pc = "evict", ![t].victim = v, ![t].todo = @ \ {v}]
  /\ UNCHANGED <<users, sidToUser, serverVars, shown>>

ShutdownClear(t) ==
  /\ At(t, "next_victim")
  /\ job[t].todo = {}
  /\ Reg!Clear
  /\ Finish(t)
  /\ UNCHANGED <<serverVars, shown>>

-----------------------------------------------------------------------------
(* A job that was started goes on by itself; what starts one is up to the  *)
(* clients, the network and the operator.                                  *)
Step(t) ==
  \/ Register(t) \/ Accept(t)
  \/ Evict(t) \/ EvictError(t)
  \/ DiscClient(t) \/ DiscRooms(t) \/ DiscAnnounce(t) \/ DiscUnregister(t) \/ DiscForget(t)
  \/ JoinEnter(t) \/ JoinAdd(t) \/ JoinAnnounce(t)
  \/ LeaveRemove(t) \/ LeaveManager(t) \/ LeaveAnnounce(t)
  \/ ShutdownNext(t) \/ ShutdownClear(t)

Begin(t) ==
  \/ \E s \in Sids : Lose(t, s) \/ \E u \in Users : ConnectBegin(t, u, s)
  \/ \E s \in Sids, r \in Rooms : JoinBegin(t, s, r) \/ LeaveBegin(t, s, r)
  \/ ShutdownBegin(t)

Next == \E t \in Threads : Begin(t) \/ Step(t)

Spec == Init /\ [][Next]_vars

(* Threads are scheduled: a handler that can go on eventually does.        *)
FairSpec == Spec /\ \A t \in Threads : WF_vars(Step(t))

-----------------------------------------------------------------------------
(* Properties *)

(* Types; the rooms of the registry and of the server are rooms that were  *)
(* asked for: no handler brings in None (events.py:151-156).               *)
TypeOK ==
  /\ Reg!TypeOK
  /\ conn \in [Sids -> {"unused", "connecting", "live", "closing", "gone"}]
  /\ auth \in [Sids -> Users \cup {NoUser}]
  /\ members \in [Rooms -> SUBSET Sids]
  /\ shown \in [Users -> SUBSET Rooms]
  /\ job \in [Threads -> Job]

(* The handlers use the registry as its specification expects: no handler  *)
(* registers a sid that is registered already, whatever else is running.   *)
RegistrySpec == Reg!Spec

(* Once the requests of a registered session are answered, the server does *)
(* not deliver to it from a room the registry says it is not in: leaving   *)
(* (remove_room before leave_room, events.py:307-312) and joining          *)
(* (join_room before add_room, events.py:165-169) cannot interleave into   *)
(* a client that still receives a room it may no longer send to.           *)
NoHiddenReceiver ==
  \A s \in Sids, r \in Rooms :
    Quiet(s) /\ Reg!ClientOf(s) # NoClient /\ s \in members[r] => Reg!IsInRoom(s, r)

(* ... and, for a client that waits for each answer, the two views of a    *)
(* room agree in both directions: whoever may send to a room receives it.  *)
MembershipAgrees ==
  \A s \in Sids, r \in Rooms :
    Quiet(s) /\ Reg!ClientOf(s) # NoClient => (s \in members[r] <=> Reg!IsInRoom(s, r))

(* A superseded session does not survive: when no handler is at work on a  *)
(* session and the client still considers it connected, it is the session  *)
(* its user is registered with (registry.py:31-32: the newer connection    *)
(* replaces the older one).                                                *)
LiveIsRegistered ==
  \A s \in Sids : conn[s] = "live" /\ Quiet(s) => sidToUser[s] = auth[s]

(* No ghost: a registered session is one the server still knows, and it    *)
(* is registered for the user that authenticated it.                       *)
NoGhost ==
  \A s \in Sids :
    sidToUser[s] # NoUser => /\ conn[s] \in {"connecting", "live", "closing"}
                            /\ sidToUser[s] = auth[s]

(* The peers of a room know every member: room.joined was announced and    *)
(* no room.left after it.  This is claimed only for a user that has had    *)
(* no other session: the handlers of an older one announce under the same  *)
(* user id, and may do so late (events.py:104-120, 321-334).               *)
OnlySession(s) == \A o \in Sids \ {s} : auth[o] # auth[s]

MembersAnnounced ==
  \A s \in Sids :
    conn[s] = "live" /\ Quiet(s) /\ OnlySession(s) => Reg!RoomsForSid(s) \subseteq shown[auth[s]]

(* A live session that lost its registration to a newer one is eventually  *)
(* dropped by the server.                                                  *)
EvictionCompletes ==
  \A s \in Sids : (conn[s] = "live" /\ sidToUser[s] = NoUser) ~> conn[s] = "gone"
=============================================================================
