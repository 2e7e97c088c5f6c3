---------------------------- MODULE EventEnvelope ---------------------------
(***************************************************************************)
(* One event from what its sender gives, through the two validations (of   *)
(* the service and of the processor), the RAM history, the data store and  *)
(* back, to what a member is sent live and what one who joins later is     *)
(* sent instead (service.py, processor.py), and to the message bus.        *)
(*                                                                         *)
(* A text is a word, perhaps with blanks around it.  Numbers and times are *)
(* named for what int(), datetime.fromtimestamp() and datetime.timestamp() *)
(* do with them.                                                           *)
(***************************************************************************)
EXTENDS IncomingRouter, FiniteSets

CONSTANTS
  Absent,           \* None, and what is not there
  NotObject,        \* a payload that is no JSON object
  Words,            \* what a name is without blanks around it
  Payloads,         \* JSON objects
  Messages,         \* what senders give
  Routes,           \* incoming_message_routes
  PersistentRooms,
  Senders           \* a subset of {"client", "server", "bus"}

VARIABLES
  message, sender,  \* the input
  clock,            \* the time at which it is received
  failing,          \* sources whose bus listeners raise
  sent,             \* the handler has run
  live,             \* the event the members were sent
  cache,            \* the record in the RAM history
  row,              \* the row in the data store
  replay,           \* the event sent instead to a later member
  published         \* calls of context.message()

vars == <<message, sender, clock, failing, sent, live, cache, row, replay, published>>

-----------------------------------------------------------------------------
(* Values *)

Texts == [word : Words, padded : BOOLEAN]

Text(word, padded) == [word |-> word, padded |-> padded]

Empty == Text("", FALSE)

Strip(t) == [t EXCEPT !.padded = FALSE]

(* "t or default" *)
Or(t, default) == IF t \in {Absent, Empty} THEN default ELSE t

Uuid == Text("uuid", FALSE)
Chat == Text("chat", FALSE)
Upsert == Text("upsert", FALSE)

Word(t) == t \notin {Absent, Empty} /\ Strip(t) = t

(* _positive_int; "many" stands for infinity, which int() does not take.   *)
PositiveInt(n, default) == IF n \in {"one", "three"} THEN n ELSE default

(* service._millis *)
Millis(t) == IF t \in {"absent", "unreadable"} THEN clock ELSE t

(* _coerce_datetime: a year that is no year becomes the present; but too   *)
(* many digits for a time_t raise OverflowError.                           *)
Coerce(t) == IF t = "beyond" THEN "now" ELSE t

Coercible(t) == t # "vast"

(* _millis_from_datetime truncates a float.  An inexact time becomes the   *)
(* millisecond beside, and that may be inexact again.  About every fourth  *)
(* millisecond is, of 1987, of most of 2004, and of the year from 19       *)
(* January 2038 on, and some of 1970, of before and of the far future.     *)
ToMillis(t) ==
  CASE t = "twice_inexact" -> "inexact"
    [] t = "inexact" -> "beside"
    [] t = "received_inexact" -> "received_beside"
    [] OTHER -> t

-----------------------------------------------------------------------------
(* What senders give, and what becomes of it *)

Message ==
  [room : Texts \cup {Absent}, type : Texts \cup {Absent}, operation : Texts \cup {Absent},
   id : Texts \cup {Absent}, objectId : Texts \cup {Absent}, key_id : Texts \cup {Absent},
   transmitter : Texts, transmitterName : Texts \cup {Absent},
   schemaVersion : {"one", "two", "word", "absent"},
   revision : {"one", "three", "zero", "word", "many"},
   createdAt : {"time", "inexact", "twice_inexact", "absent", "unreadable", "beyond", "vast", "many"},
   payload : Payloads \cup {NotObject}]

Clocks == {"received", "received_inexact"}

Event ==
  [schemaVersion : {"one", "zero"},
   id : Texts, room : Texts, transmitter : Texts, transmitterName : Texts, type : Texts,
   operation : Texts, objectId : Texts, key_id : Texts \cup {Absent},
   createdAt : Clocks \cup {"received_beside", "now", "time", "inexact", "twice_inexact",
                           "beside", "beyond", "vast", "many"},
   receivedAt : Clocks \cup {"received_beside"},
   revision : {"one", "three", "zero"},
   payload : Payloads \cup {NotObject}]

ASSUME WordsKnown == {"", "uuid", "chat", "upsert"} \subseteq Words
ASSUME MessagesTyped == Messages \subseteq Message
ASSUME RoomsNamed == \A r \in PersistentRooms : r \in Texts /\ Word(r)
(* A text of a payload is of characters that casefold() knows.             *)
ASSUME TextsSpelled == \A p \in Payloads : p.text \in Seq(Characters)
(* What IncomingMessageRouter.__init__ lets pass (incoming_routes.py:13-30)*)
ASSUME RoutesConfigured ==
  /\ Routes \in Seq(Range(Routes))
  /\ \A r \in Range(Routes) :
       r \in [rooms : SUBSET Texts, prefix : Seq(Characters) \ {<<>>}, source : {r.source}]
ASSUME NullsFresh ==
  Absent \notin Texts \cup Event \cup [json : Payloads] /\ NotObject \notin Payloads \cup [json : Payloads]

-----------------------------------------------------------------------------
(* service.create_event *)

EventId(m) == Strip(Or(m.id, Uuid))

(* Mutant: a blank key id is not noticed. *)
CreatableBlankKey(m) ==
  /\ EventId(m) # Empty
  /\ Strip(Or(m.type, Empty)) # Empty /\ Strip(Or(m.operation, Empty)) # Empty
  /\ Strip(Or(m.objectId, EventId(m))) # Empty
  /\ Strip(m.transmitter) # Empty
  /\ m.payload # NotObject
  /\ "many" \notin {m.createdAt, m.revision}

Creatable(m) ==
  /\ EventId(m) # Empty
  /\ Strip(Or(m.type, Empty)) # Empty /\ Strip(Or(m.operation, Empty)) # Empty
  /\ Strip(Or(m.objectId, EventId(m))) # Empty
  /\ m.key_id # Absent => Strip(m.key_id) # Empty
  /\ Strip(m.transmitter) # Empty
  /\ m.payload # NotObject
  /\ "many" \notin {m.createdAt, m.revision}

CreateEvent(m) ==
  [schemaVersion |-> "one",
   id |-> EventId(m),
   createdAt |-> Millis(m.createdAt),
   receivedAt |-> clock,
   room |-> m.room,
   transmitter |-> Strip(m.transmitter),
   transmitterName |->
     IF m.transmitterName = Absent THEN Strip(m.transmitter) ELSE m.transmitterName,
   type |-> Strip(Or(m.type, Empty)),
   operation |-> Strip(Or(m.operation, Empty)),
   objectId |-> Strip(Or(m.objectId, EventId(m))),
   revision |-> PositiveInt(m.revision, "one"),
   key_id |-> IF m.key_id = Absent THEN Absent ELSE Strip(m.key_id),
   payload |-> m.payload]

-----------------------------------------------------------------------------
(* The processor *)

(* _normalize_event raises neither ValueError nor OverflowError. *)
Normalizable(e) ==
  /\ PositiveInt(e.schemaVersion, "zero") = "one"
  /\ e.key_id # Absent => Strip(e.key_id) # Empty
  /\ e.payload # NotObject
  /\ \A f \in {"id", "room", "transmitter", "type", "operation", "objectId"} :
       Strip(Or(e[f], Empty)) # Empty
  /\ PositiveInt(e.revision, "zero") # "zero"
  /\ Coercible(e.createdAt)

(* Mutant: the id is taken as it is. *)
NormalizedRawId(e) ==
  [schemaVersion |-> PositiveInt(e.schemaVersion, "zero"),
   id |-> e.id,
   createdAt |-> Coerce(e.createdAt),
   receivedAt |-> Coerce(e.receivedAt),
   room |-> Strip(e.room),
   transmitter |-> Strip(e.transmitter),
   transmitterName |-> Strip(Or(e.transmitterName, Strip(e.transmitter))),
   type |-> Strip(e.type),
   operation |-> Strip(e.operation),
   objectId |-> Strip(e.objectId),
   revision |-> PositiveInt(e.revision, "zero"),
   key_id |-> IF e.key_id = Absent THEN Absent ELSE Strip(e.key_id),
   payload |-> e.payload]

Normalized(e) ==
  [schemaVersion |-> PositiveInt(e.schemaVersion, "zero"),
   id |-> Strip(e.id),
   createdAt |-> Coerce(e.createdAt),
   receivedAt |-> Coerce(e.receivedAt),
   room |-> Strip(e.room),
   transmitter |-> Strip(e.transmitter),
   transmitterName |-> Strip(Or(e.transmitterName, Strip(e.transmitter))),
   type |-> Strip(e.type),
   operation |-> Strip(e.operation),
   objectId |-> Strip(e.objectId),
   revision |-> PositiveInt(e.revision, "zero"),
   key_id |-> IF e.key_id = Absent THEN Absent ELSE Strip(e.key_id),
   payload |-> e.payload]

(* Mutant: the key id has no column. *)
PersistDataKeyless(r) == [r EXCEPT !.payload = [json |-> @], !.key_id = Absent]

(* _event_to_persist_data: the payload becomes JSON text, the rest columns. *)
(* The dataframe read later is external; a column that was not set is      *)
(* missing there.                                                          *)
PersistData(r) == [r EXCEPT !.payload = [json |-> @]]

(* _records_from_dataframe *)
Reload(d) ==
  [d EXCEPT !.schemaVersion = PositiveInt(@, "one"),
            !.operation = Or(@, Upsert),
            !.revision = PositiveInt(@, "one"),
            !.payload = @.json,
            !.key_id = IF @ = Absent \/ Strip(@) = Empty THEN Absent ELSE Strip(@)]

Reloadable(d) ==
  \A f \in {"room", "transmitter", "id", "type", "objectId", "payload"} : d[f] # Absent

(* _event_to_wire *)
ToWire(r) == [r EXCEPT !.createdAt = ToMillis(@), !.receivedAt = ToMillis(@)]

(* _build_server_event *)
Buildable(m) ==
  /\ Strip(Or(m.type, Chat)) # Empty /\ Strip(Or(m.operation, Upsert)) # Empty
  /\ Strip(Or(m.objectId, Or(m.id, Uuid))) # Empty
  /\ m.payload # NotObject
  /\ "many" \notin {m.createdAt, m.revision} /\ Coercible(m.createdAt)

BuildServerEvent(m) ==
  [schemaVersion |-> "one",
   id |-> Or(m.id, Uuid),
   createdAt |-> IF m.createdAt \in {"absent", "unreadable", "beyond"} THEN clock
                 ELSE ToMillis(m.createdAt),
   receivedAt |-> clock,
   room |-> m.room,
   transmitter |-> m.transmitter,
   transmitterName |-> m.transmitterName,
   type |-> Strip(Or(m.type, Chat)),
   operation |-> Strip(Or(m.operation, Upsert)),
   objectId |-> Strip(Or(m.objectId, Or(m.id, Uuid))),
   revision |-> PositiveInt(m.revision, "one"),
   key_id |-> Absent,
   payload |-> m.payload]

-----------------------------------------------------------------------------
(* The senders *)

(* A client's display name is its stripped user name or its raw id         *)
(* (registry.connect), the server's is configured.  The rooms of the bus   *)
(* routes and of the UI are stripped beforehand.                           *)
Sendable ==
  /\ sender = "client" => Word(message.transmitterName)
                             \/ message.transmitterName = message.transmitter
  /\ sender = "bus" => /\ message.transmitterName # Absent
                       /\ message.room = Absent \/ Word(message.room)

Init ==
  /\ message \in Messages /\ sender \in Senders /\ Sendable /\ clock \in Clocks
  /\ failing \in SUBSET (IF sender = "client" THEN {r.source : r \in Range(Routes)} ELSE {})
  /\ sent = FALSE
  /\ live = Absent /\ cache = Absent /\ row = Absent /\ replay = Absent
  /\ published = <<>>

(* What process_client_event passes on, and what it refuses itself. *)
ClientArgs ==
  [message EXCEPT !.type = Strip(Or(@, Empty)), !.operation = Strip(Or(@, Upsert))]

Accepted ==
  /\ message.room # Absent /\ Strip(message.room) # Empty
  /\ message.schemaVersion \in {"absent", "one"}
  /\ Creatable(ClientArgs)

(* _record_normalized_event; saving may fail, at once or in the event loop. *)
RecordNormalized(r) ==
  IF r.room \in PersistentRooms
    THEN cache' = r /\ row' \in {PersistData(r), Absent}
    ELSE UNCHANGED <<cache, row>>

(* service.record_event *)
Record(e) ==
  IF e.room \in PersistentRooms /\ Normalizable(e)
    THEN RecordNormalized(Normalized(e))
    ELSE UNCHANGED <<cache, row>>

(* process_client_event: whatever recording and routing raise is logged.   *)
ClientSends ==
  /\ sender = "client" /\ ~sent
  /\ sent' = TRUE
  /\ IF Accepted
       THEN LET e == CreateEvent(ClientArgs)
            IN /\ Record(e)
               /\ live' = e
               /\ published' = IF Routable(e.type = Chat /\ e.operation = Upsert, e.payload)
                                 THEN Publish(Routes, e.room, e.payload.text, failing)
                                 ELSE <<>>
       ELSE UNCHANGED <<cache, row, live, published>>
  /\ UNCHANGED <<message, sender, clock, failing, replay>>

(* service.send_server_event; an argument that is absent is not passed.    *)
(* What the server sends it records first; if that raises it is not sent.  *)
ServerArgs ==
  [message EXCEPT !.room = Or(@, Empty),
                  !.type = IF @ = Absent THEN Chat ELSE @,
                  !.operation = IF @ = Absent THEN Upsert ELSE @]

ServerSends ==
  /\ sender = "server" /\ ~sent
  /\ sent' = TRUE
  /\ IF Creatable(ServerArgs)
       THEN LET e == CreateEvent(ServerArgs)
            IN /\ Record(e)
               /\ \/ /\ e.room \in PersistentRooms => Normalizable(e)
                     /\ live' = e
                  \/ /\ e.room \in PersistentRooms /\ row' = Absent
                     /\ UNCHANGED live
       ELSE UNCHANGED <<cache, row, live>>
  /\ UNCHANGED <<message, sender, clock, failing, replay, published>>

(* _on_signaldeck_message for one room, or performActions of the UI.  The  *)
(* event is normalized before anything else, so one without room is not    *)
(* sent at all.                                                            *)
BusSends ==
  LET args == [message EXCEPT !.room = Or(@, Empty)]
      e == BuildServerEvent(args)
  IN /\ sender = "bus" /\ ~sent
     /\ sent' = TRUE
     /\ IF Buildable(args) /\ Normalizable(e)
          THEN LET r == Normalized(e)
               IN /\ RecordNormalized(r)
                  /\ \/ live' = ToWire(r)
                     \/ r.room \in PersistentRooms /\ row' = Absent /\ UNCHANGED live
          ELSE UNCHANGED <<cache, row, live>>
     /\ UNCHANGED <<message, sender, clock, failing, replay, published>>

-----------------------------------------------------------------------------
(* init_current_vals of the next process *)
Restart ==
  /\ sent
  /\ cache' = IF row # Absent /\ Reloadable(row) THEN Reload(row) ELSE Absent
  /\ replay' = Absent
  /\ UNCHANGED <<message, sender, clock, failing, sent, live, row, published>>

(* get_missed_events *)
Join ==
  /\ cache # Absent
  /\ replay' = ToWire(cache)
  /\ UNCHANGED <<message, sender, clock, failing, sent, live, cache, row, published>>

Next == ClientSends \/ ServerSends \/ BusSends \/ Restart \/ Join

Spec == Init /\ [][Next]_vars

-----------------------------------------------------------------------------
(* Properties *)

(* Clients need of every event they are sent, live or later, an id, a type *)
(* and so on that are not blank, and a positive revision (processor.py:66- *)
(* 83).                                                                    *)
WellFormed(e) ==
  /\ \A f \in {"id", "transmitter", "type", "operation", "objectId"} : Word(e[f])
  /\ e.key_id = Absent \/ Word(e.key_id)
  /\ e.schemaVersion = "one" /\ e.revision \in {"one", "three"}
  /\ e.payload # NotObject

TypeOK ==
  /\ sender \in Senders /\ sent \in BOOLEAN
  /\ \A e \in {live, cache, row, replay} : e = Absent \/ WellFormed(e)

(* What the service's validation lets pass, and the members are sent, the  *)
(* processor's validation lets pass, too: no event of a persistent room    *)
(* misses in the history for its form, except for a time out of range      *)
(* (events.py:480).                                                        *)
AcceptedIsRecorded ==
  [][live' # live /\ live'.room \in PersistentRooms
       => cache' # Absent \/ live'.createdAt = "vast"]_vars

(* To the millisecond, perhaps the one beside *)
SameTime(copy, original) == copy \in {original, ToMillis(original)}

SameEvent(copy, original) ==
  /\ \A f \in DOMAIN original \ {"createdAt", "receivedAt", "transmitterName"} :
       copy[f] = original[f]
  /\ SameTime(copy.createdAt, original.createdAt) \/ original.createdAt = "beyond"
  /\ SameTime(copy.receivedAt, original.receivedAt)
  /\ copy.transmitterName = original.transmitterName \/ ~Word(original.transmitterName)

(* Whoever was not there is sent what the members were sent, before a      *)
(* restart or after it: the same but for a millisecond of the two times,   *)
(* for a time out of range, and for blanks around a display name.          *)
ReplayIsLive == replay # Absent /\ live # Absent => SameEvent(replay, live)

(* The bus is given exactly the prompts that the clients' messages address *)
(* to a route, in the order of the routes and up to a listener that        *)
(* raises.  Where folding changes the length of the text it may be fewer.  *)
(* by[i] is the route that the i-th call is for.                           *)
RouterMatches ==
  sent /\ sender = "client" =>
    LET p == message.payload
        addressed ==
          {n \in DOMAIN Routes :
             /\ live # Absent /\ p # NotObject
             /\ p.contentType = "text" /\ ~p.system
             /\ {live.type} = {Chat} /\ {live.operation} = {Upsert}
             /\ Prompts(Routes[n], live.room, p.text) # {}}
        plain == \A i \in DOMAIN p.text : Len(CaseFold[p.text[i]]) = 1
    IN \E by \in [DOMAIN published -> addressed] :
         /\ \A i, k \in DOMAIN published : i < k => by[i] < by[k]
         /\ \A i \in DOMAIN published :
              /\ published[i].source = Routes[by[i]].source
              /\ published[i].content \in Prompts(Routes[by[i]], live.room, p.text)
              /\ i < Len(published) => published[i].source \notin failing
         /\ \A n \in addressed :
              plain /\ (\A i \in DOMAIN published : by[i] # n) =>
                \E i \in DOMAIN published : published[i].source \in failing /\ by[i] < n
=============================================================================
