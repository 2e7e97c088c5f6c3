---------------------------- MODULE EventDelivery ---------------------------
(***************************************************************************)
(* How an event of one persistent room reaches its readers: live, through  *)
(* process_client_event (record_event, then emit) or a sender of the       *)
(* server's own (command, UI, message bus), or as a missed event, through  *)
(* the last part of handle_join_room (join_room, then the history lookup,  *)
(* then the answer).  Handlers run in threads of their own; every step of  *)
(* a job is one call that touches shared state.                            *)
(*                                                                         *)
(* The history is used as HistoryLog promises it, without expiry; that     *)
(* MessageHistory keeps the promise is checked there.  Room membership is  *)
(* the server's; that the registry agrees is checked in RoomSessions.      *)
(*                                                                         *)
(* The clients are not part of the repository.  They are modelled as       *)
(* careful as the protocol lets them be: lastEventID is the last event of  *)
(* another client received while in sync, and a client is in sync from its *)
(* missed_events answer until its connection ends.                         *)
(***************************************************************************)
EXTENDS Sequences, Naturals

CONSTANTS
  Clients, Events, Threads,
  Server,       \* the server as a sender
  NoClient, NoEvent,
  NamedNone,    \* the event with the id "None", NoEvent if none has it
  Allowed       \* what may happen, see Circumstances

Circumstances ==
  {"concurrent_sends",  \* two senders' events are in processing at once
   "retry",             \* a client sends an event again, with the same id
   "server",            \* the server sends events of its own
   "save_error",        \* the data store fails while such an event is recorded
   "no_recorder",       \* no processor has bound its recorder yet
   "history_error"}     \* service.get_missed_events() raises

ASSUME AllowedKnown == Allowed \subseteq Circumstances
ASSUME NullValues ==
  {NoClient, Server} \cap Clients = {} /\ Server # NoClient /\ NoEvent \notin Events
ASSUME NamedNoneKnown == NamedNone \in Events \cup {NoEvent}

VARIABLES
  log,        \* the RAM history of the room: event ids, oldest first
  online,     \* clients with a live session
  member,     \* sessions the server emits the room to, by client
  author,     \* author[e]: who sent event e
  job,        \* job[t]: the handler thread t is running
  got,        \* got[c]: events client c has received or sent successfully
  last,       \* last[c]: what c would pass as lastEventID
  synced,     \* clients that had their missed_events answer in this session
  resumed,    \* history variable: clients that joined with a lastEventID
  misled,     \* history variable: clients whose lookup failed or mistook null
  withheld    \* history variable: events recorded and, for an error, not emitted

clientVars == <<got, last, synced, resumed, misled>>
eventVars == <<author, withheld>>
vars == <<log, online, member, eventVars, job, clientVars>>

-----------------------------------------------------------------------------
Job ==
  [pc : {"idle", "join_enter", "join_lookup", "join_answer", "record", "emit", "ack"},
   client : Clients \cup {Server, NoClient},
   event : Events \cup {NoEvent},    \* the event sent, or the join's lastEventID
   missed : Seq(Events),             \* the answer of the history
   alive : BOOLEAN]                  \* the session that asked still exists

Idle == [pc |-> "idle", client |-> NoClient, event |-> NoEvent, missed |-> <<>>, alive |-> FALSE]

At(t, label) == job[t].pc = label

Start(t, pc, c, e) ==
  /\ job[t] = Idle
  /\ job' = [job EXCEPT ![t] = [pc |-> pc, client |-> c, event |-> e,
                                missed |-> <<>>, alive |-> c # Server]]

Goto(t, label) == job' = [job EXCEPT ![t].pc = label]

Finish(t) == job' = [job EXCEPT ![t] = Idle]

Busy(c) == \E t \in Threads : job[t].client = c /\ job[t].alive

Sending(t) == job[t].pc \in {"record", "emit", "ack"}

Recorded == {log[i] : i \in DOMAIN log}

(* _id_key: str(id), of a null lastEventID as well *)
Key(e) == IF e = NoEvent THEN NamedNone ELSE e

(* Mutant: the first newer event is skipped. *)
AfterNext(e) ==
  IF e \in Recorded
  THEN SubSeq(log, (CHOOSE i \in DOMAIN log : log[i] = e) + 2, Len(log))
  ELSE log

(* HistoryLog's answer to a lastEventID *)
After(e) ==
  IF e \in Recorded
  THEN SubSeq(log, (CHOOSE i \in DOMAIN log : log[i] = e) + 1, Len(log))
  ELSE log

-----------------------------------------------------------------------------
Init ==
  /\ log = <<>>
  /\ online = {}
  /\ member = {}
  /\ author = [e \in Events |-> NoClient]
  /\ job = [t \in Threads |-> Idle]
  /\ got = [c \in Clients |-> {}]
  /\ last = [c \in Clients |-> NoEvent]
  /\ synced = {}
  /\ resumed = {}
  /\ misled = {}
  /\ withheld = {}

(* A new session of a client, registered by handle_connect. *)
Open(c) ==
  /\ c \notin online
  /\ online' = online \cup {c}
  /\ UNCHANGED <<log, member, eventVars, job, clientVars>>

(* Mutant: the server forgets the session but not its room. *)
CloseKeepsMember(c) ==
  /\ c \in online
  /\ online' = online \ {c}
  /\ synced' = synced \ {c}
  /\ job' = [t \in Threads |-> IF job[t].client = c THEN [job[t] EXCEPT !.alive = FALSE]
                               ELSE job[t]]
  /\ UNCHANGED <<log, member, eventVars, got, last, resumed, misled>>

(* The connection ends: the server drops the session from the room; its    *)
(* handlers run on, but what they send to that session reaches nobody.     *)
Close(c) ==
  /\ c \in online
  /\ online' = online \ {c}
  /\ member' = member \ {c}
  /\ synced' = synced \ {c}
  /\ job' = [t \in Threads |-> IF job[t].client = c THEN [job[t] EXCEPT !.alive = FALSE]
                               ELSE job[t]]
  /\ UNCHANGED <<log, eventVars, got, last, resumed, misled>>

-----------------------------------------------------------------------------
(* handle_join_room, from join_room() on *)

JoinBegin(t, c) ==
  /\ c \in online
  /\ ~Busy(c)
  /\ Start(t, "join_enter", c, last[c])
  /\ resumed' = resumed \cup {d \in {c} : last[d] # NoEvent}
  /\ UNCHANGED <<log, online, member, eventVars, got, last, synced, misled>>

(* For a session that is gone, join_room() raises and the handler ends.    *)
JoinEnter(t) ==
  /\ At(t, "join_enter")
  /\ \/ /\ job[t].alive
        /\ member' = member \cup {job[t].client}
        /\ Goto(t, "join_lookup")
     \/ /\ ~job[t].alive
        /\ Finish(t)
        /\ UNCHANGED member
  /\ UNCHANGED <<log, online, eventVars, clientVars>>

(* A client without a lastEventID is taken for one that has the event      *)
(* named "None", if the history holds such an event.                       *)
JoinLookup(t) ==
  LET k == Key(job[t].event)
  IN /\ At(t, "join_lookup")
     /\ job' = [job EXCEPT ![t].pc = "join_answer", ![t].missed = After(k)]
     /\ misled' = misled \cup {c \in {job[t].client} : k # job[t].event /\ k \in Recorded}
     /\ UNCHANGED <<log, online, member, eventVars, got, last, synced, resumed>>

(* The exception is logged and an empty list is sent instead.              *)
JoinLookupError(t) ==
  /\ "history_error" \in Allowed
  /\ At(t, "join_lookup")
  /\ Goto(t, "join_answer")
  /\ misled' = misled \cup {job[t].client}
  /\ UNCHANGED <<log, online, member, eventVars, got, last, synced, resumed>>

(* emit("missed_events", events, room=request.sid) *)
JoinAnswer(t) ==
  LET c == job[t].client
      m == job[t].missed
  IN /\ At(t, "join_answer")
     /\ \/ /\ job[t].alive
           /\ got' = [got EXCEPT ![c] = @ \cup {m[i] : i \in DOMAIN m}]
           /\ last' = [last EXCEPT ![c] = IF m = <<>> THEN @ ELSE m[Len(m)]]
           /\ synced' = synced \cup {c}
        \/ ~job[t].alive /\ UNCHANGED <<got, last, synced>>
     /\ Finish(t)
     /\ UNCHANGED <<log, online, member, eventVars, resumed, misled>>

-----------------------------------------------------------------------------
(* process_client_event *)

(* The membership check passes and the event is created.  An event id is   *)
(* one client's; it is used again only by that client's retry, which it    *)
(* makes when it never got an acknowledgement.                             *)
SendBegin(t, c, e) ==
  /\ c \in member
  /\ ~Busy(c)
  /\ \/ author[e] = NoClient
     \/ "retry" \in Allowed /\ author[e] = c /\ e \notin got[c]
  /\ \/ "concurrent_sends" \in Allowed
     \/ \A o \in Threads : ~Sending(o)
  /\ Start(t, "record", c, e)
  /\ author' = [author EXCEPT ![e] = c]
  /\ UNCHANGED <<log, online, member, clientVars, withheld>>

(* send_server_event, or the _send_event of the processor: a new id each time. *)
ServerBegin(t, e) ==
  /\ "server" \in Allowed
  /\ author[e] = NoClient
  /\ "concurrent_sends" \in Allowed \/ \A o \in Threads : ~Sending(o)
  /\ Start(t, "record", Server, e)
  /\ author' = [author EXCEPT ![e] = Server]
  /\ UNCHANGED <<log, online, member, clientVars, withheld>>

(* Mutant: an event that is sent again moves to the end of the history. *)
SendRecordMoves(t) ==
  LET e == job[t].event
  IN /\ At(t, "record")
     /\ log' = Append(SelectSeq(log, LAMBDA x : x # e), e)
     /\ Goto(t, "emit")
     /\ UNCHANGED <<online, member, eventVars, clientVars>>

(* record_event: the history enters an id once.  An exception of the data  *)
(* store comes after this and is logged ("Persistence must never prevent   *)
(* live delivery"), so it makes no difference here.                        *)
SendRecord(t) ==
  LET e == job[t].event
  IN /\ At(t, "record")
     /\ log' = IF e \in Recorded THEN log ELSE Append(log, e)
     /\ Goto(t, "emit")
     /\ UNCHANGED <<online, member, eventVars, clientVars>>

(* The data store fails before the server's event is emitted; the history  *)
(* has it by then, and the exception ends the sending.                     *)
ServerRecordError(t) ==
  LET e == job[t].event
  IN /\ "save_error" \in Allowed
     /\ At(t, "record") /\ job[t].client = Server
     /\ log' = IF e \in Recorded THEN log ELSE Append(log, e)
     /\ withheld' = withheld \cup {e}
     /\ Finish(t)
     /\ UNCHANGED <<online, member, author, clientVars>>

(* No processor has bound its recorder: nothing is recorded, no error.     *)
SendUnrecorded(t) ==
  /\ "no_recorder" \in Allowed
  /\ At(t, "record")
  /\ Goto(t, "emit")
  /\ UNCHANGED <<log, online, member, eventVars, clientVars>>

(* Mutant: only sessions whose join was answered are emitted to. *)
SendEmitToSynced(t) ==
  LET e == job[t].event
      to == synced \ {c \in {job[t].client} : job[t].alive}
  IN /\ At(t, "emit")
     /\ got' = [c \in Clients |-> IF c \in to THEN got[c] \cup {e} ELSE got[c]]
     /\ last' = [c \in Clients |-> IF c \in to \cap synced THEN e ELSE last[c]]
     /\ Goto(t, "ack")
     /\ UNCHANGED <<log, online, member, eventVars, synced, resumed, misled>>

(* emit to the room without the sender's own session *)
SendEmit(t) ==
  LET e == job[t].event
      to == member \ {c \in {job[t].client} : job[t].alive}
  IN /\ At(t, "emit")
     /\ got' = [c \in Clients |-> IF c \in to THEN got[c] \cup {e} ELSE got[c]]
     /\ last' = [c \in Clients |-> IF c \in to \cap synced THEN e ELSE last[c]]
     /\ Goto(t, "ack")
     /\ UNCHANGED <<log, online, member, eventVars, synced, resumed, misled>>

(* publish to the message bus (errors are swallowed), then acknowledge;    *)
(* the server's sender just returns.                                       *)
SendAck(t) ==
  LET c == job[t].client
      e == job[t].event
  IN /\ At(t, "ack")
     /\ \/ job[t].alive /\ got' = [got EXCEPT ![c] = @ \cup {e}]
        \/ ~job[t].alive /\ UNCHANGED got
     /\ Finish(t)
     /\ UNCHANGED <<log, online, member, eventVars, last, synced, resumed, misled>>

-----------------------------------------------------------------------------
Step(t) ==
  \/ JoinEnter(t) \/ JoinLookup(t) \/ JoinLookupError(t) \/ JoinAnswer(t)
  \/ SendRecord(t) \/ ServerRecordError(t) \/ SendUnrecorded(t) \/ SendEmit(t) \/ SendAck(t)

Next ==
  \/ \E c \in Clients : Open(c) \/ Close(c)
  \/ \E t \in Threads, c \in Clients : JoinBegin(t, c)
  \/ \E t \in Threads, c \in Clients, e \in Events : SendBegin(t, c, e)
  \/ \E t \in Threads, e \in Events : ServerBegin(t, e)
  \/ \E t \in Threads : Step(t)

Spec == Init /\ [][Next]_vars

-----------------------------------------------------------------------------
(* Properties *)

(* Types. *)
TypeOK ==
  /\ log \in Seq(Events)
  /\ online \subseteq Clients
  /\ member \subseteq online
  /\ author \in [Events -> Clients \cup {Server, NoClient}]
  /\ job \in [Threads -> Job]
  /\ got \in [Clients -> SUBSET Events]
  /\ last \in [Clients -> Events \cup {NoEvent}]
  /\ synced \subseteq member
  /\ resumed \subseteq Clients
  /\ misled \subseteq Clients
  /\ withheld \subseteq Recorded

OnItsWay(e) == \E t \in Threads : job[t].event = e /\ At(t, "emit")

(* The client made e, has it, or will be emitted it.                       *)
Accounted(c, e) == author[e] = c \/ e \in got[c] \/ OnItsWay(e)

(* README.md:146-147: the server answers for missing events.  Once its     *)
(* join is answered, a client has every event of the room's history or is  *)
(* about to receive it: entering the room before reading the history, and  *)
(* recording before emitting, leave no moment in which an event passes it. *)
NoGap == \A c \in synced \ misled, e \in Recorded \ withheld : Accounted(c, e)

(* The same for clients that never had to resume, whatever else runs:      *)
(* several senders at once, none of them waiting for another's emit, and   *)
(* handlers that go on when their own session is gone.  An emit is never   *)
(* forgotten: what is recorded and not on its way has arrived.  Not for a  *)
(* client whose first join finds an event named "None" in the history      *)
(* (misled): it is not given that event nor what was recorded before it.   *)
FirstJoinComplete ==
  \A c \in synced \ (misled \cup resumed), e \in Recorded \ withheld : Accounted(c, e)

(* A lastEventID never hides an event from its client: everything the      *)
(* history would skip for it is accounted for, even while it is offline.   *)
LastIsHorizon ==
  \A c \in Clients \ misled : last[c] \in Recorded =>
    \A e \in (Recorded \ withheld) \ {After(last[c])[i] : i \in DOMAIN After(last[c])} : Accounted(c, e)
=============================================================================
