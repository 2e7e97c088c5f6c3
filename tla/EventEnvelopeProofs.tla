------------------------ MODULE EventEnvelopeProofs -------------------------
(***************************************************************************)
(* Proofs about EventEnvelope for every message, payload and route: what   *)
(* the two validations have to do with one another, what an event is after *)
(* the RAM history, the data store and a restart, and which part of it the *)
(* message bus is given.                                                   *)
(***************************************************************************)
EXTENDS EventEnvelope, SequenceFacts

LEMMA StripText ==
  ASSUME NEW t \in Texts
  PROVE  /\ Strip(t) \in Texts /\ Strip(Strip(t)) = Strip(t)
         /\ Strip(t) # Absent
         /\ Strip(t) = Empty \/ Word(Strip(t))
BY NullsFresh DEF Texts, Strip, Word, Empty, Text

LEMMA WordText ==
  ASSUME NEW t \in Texts, Word(t)
  PROVE  Strip(t) = t /\ t # Empty /\ t # Absent /\ \A d : Or(t, d) = t
BY DEF Word, Or

LEMMA OrText ==
  ASSUME NEW t \in Texts \cup {Absent}, NEW d \in Texts
  PROVE  Or(t, d) \in Texts
BY DEF Or

LEMMA KnownTexts == Empty \in Texts /\ Uuid \in Texts /\ Chat \in Texts /\ Upsert \in Texts
BY WordsKnown DEF Empty, Uuid, Chat, Upsert, Text, Texts

LEMMA StripEmpty == Strip(Empty) = Empty
<1>1. ASSUME NEW t \in Texts, t.padded = FALSE PROVE Strip(t) = t
  BY <1>1 DEF Strip, Texts
<1>2. Empty.padded = FALSE
  BY DEF Empty, Text
<1>. QED BY <1>1, <1>2, KnownTexts

(* When senders say an event was made, and what create_event makes of it   *)
GivenTimes ==
  {"time", "inexact", "twice_inexact", "absent", "unreadable", "beyond", "vast", "many"}

CreatedTimes == Clocks \cup {"time", "inexact", "twice_inexact", "beyond", "vast"}

(* An event as create_event makes it: all its names are words. *)
Made(e) ==
  /\ e \in Event
  /\ \A f \in {"id", "transmitter", "type", "operation", "objectId"} : Word(e[f])
  /\ e.key_id = Absent \/ Word(e.key_id)
  /\ e.schemaVersion = "one" /\ e.revision \in {"one", "three"}
  /\ e.payload # NotObject

LEMMA CreatedIsMade ==
  ASSUME NEW m \in Message, m.room # Absent, Creatable(m), clock \in Clocks
  PROVE  Made(CreateEvent(m))
<1>. DEFINE e == CreateEvent(m)
<1>1. EventId(m) \in Texts /\ Word(EventId(m))
  BY OrText, StripText, KnownTexts DEF Creatable, EventId, Message
<1>2. /\ {e.transmitter, e.type, e.operation, e.objectId} \subseteq Texts
      /\ Word(e.transmitter) /\ Word(e.type) /\ Word(e.operation) /\ Word(e.objectId)
  BY <1>1, OrText, StripText, KnownTexts DEF Creatable, CreateEvent, Message
<1>3. e.key_id = Absent \/ (e.key_id \in Texts /\ Word(e.key_id))
  BY StripText DEF Creatable, CreateEvent, Message
<1>4. e.transmitterName \in Texts
  BY <1>2 DEF CreateEvent, Message
<1>5. e.createdAt \in CreatedTimes /\ e.receivedAt \in Clocks
  BY DEF Creatable, CreateEvent, Message, Millis, CreatedTimes
<1>6. e.revision \in {"one", "three"}
  BY DEF CreateEvent, PositiveInt
<1>7. e.room \in Texts /\ e.payload \in Payloads
  BY DEF Creatable, CreateEvent, Message
<1>8. e \in Event
  BY <1>1, <1>2, <1>3, <1>4, <1>5, <1>6, <1>7 DEF CreateEvent, Event, CreatedTimes
<1>. QED BY <1>1, <1>2, <1>3, <1>6, <1>7, <1>8, NullsFresh DEF Made, CreateEvent

LEMMA BuiltIsEvent ==
  ASSUME NEW m \in Message, m.room # Absent, m.transmitterName # Absent, Buildable(m),
         clock \in Clocks
  PROVE  BuildServerEvent(m) \in Event
<1>. DEFINE e == BuildServerEvent(m)
<1>1. e.id \in Texts /\ e.objectId \in Texts /\ e.type \in Texts /\ e.operation \in Texts
  BY OrText, StripText, KnownTexts DEF Message, BuildServerEvent
<1>2. e.createdAt \in Clocks \cup {"time", "inexact", "beside"} /\ e.receivedAt \in Clocks
  BY DEF Buildable, Coercible, Message, ToMillis, BuildServerEvent
<1>3. /\ e.room \in Texts /\ e.transmitter \in Texts /\ e.transmitterName \in Texts
      /\ e.payload \in Payloads
  BY DEF Message, Buildable, BuildServerEvent
<1>. QED BY <1>1, <1>2, <1>3 DEF BuildServerEvent, Event, PositiveInt

-----------------------------------------------------------------------------
(* The processor *)

LEMMA MadeIsNormalizable ==
  ASSUME NEW e, Made(e), Word(e.room), Coercible(e.createdAt) PROVE Normalizable(e)
<1>1. \A f \in {"id", "room", "transmitter", "type", "operation", "objectId"} :
        Strip(Or(e[f], Empty)) # Empty
  BY DEF Made, Word, Or
<1>. QED BY <1>1 DEF Made, Normalizable, PositiveInt, Word

LEMMA NormalizedIsMade ==
  ASSUME NEW e \in Event, Normalizable(e) PROVE Made(Normalized(e)) /\ Word(Normalized(e).room)
<1>. DEFINE r == Normalized(e)
<1>1. \A f \in {"id", "room", "transmitter", "type", "operation", "objectId"} :
        e[f] \in Texts /\ Strip(e[f]) \in Texts /\ Word(Strip(e[f]))
  <2>. SUFFICES ASSUME NEW f \in {"id", "room", "transmitter", "type", "operation", "objectId"}
                PROVE  e[f] \in Texts /\ Strip(e[f]) \in Texts /\ Word(Strip(e[f]))
    OBVIOUS
  <2>1. e[f] \in Texts
    BY DEF Event
  <2>2. Strip(Or(e[f], Empty)) # Empty
    BY DEF Normalizable
  <2>3. Or(e[f], Empty) \in {e[f], Empty} /\ Strip(Empty) = Empty
    BY StripEmpty DEF Or
  <2>4. Strip(e[f]) # Empty
    BY <2>2, <2>3
  <2>. QED BY <2>1, <2>4, StripText
<1>2. Strip(Or(e.transmitterName, Strip(e.transmitter))) \in Texts
  BY <1>1, OrText, StripText DEF Event
<1>3. r.key_id = Absent \/ (r.key_id \in Texts /\ Word(r.key_id))
  BY StripText DEF Normalized, Normalizable, Event
<1>4. /\ r.createdAt \in Clocks \cup {"received_beside", "now", "time", "inexact", "twice_inexact",
                                    "beside", "many"}
      /\ r.receivedAt \in Clocks \cup {"received_beside"}
  BY DEF Normalized, Normalizable, Coerce, Coercible, Event, Clocks
<1>5. r.revision \in {"one", "three"} /\ r.schemaVersion = "one"
  BY DEF Normalized, Normalizable, PositiveInt, Event
<1>6. r.payload \in Payloads
  BY DEF Normalized, Normalizable, Event
<1>7. /\ {r.id, r.room, r.transmitter, r.type, r.operation, r.objectId} \subseteq Texts
      /\ Word(r.id) /\ Word(r.room) /\ Word(r.transmitter) /\ Word(r.type)
      /\ Word(r.operation) /\ Word(r.objectId)
  BY <1>1 DEF Normalized
<1>8. r \in Event
  BY <1>2, <1>3, <1>4, <1>5, <1>6, <1>7 DEF Normalized, Event
<1>. QED BY <1>3, <1>5, <1>6, <1>7, <1>8, NullsFresh DEF Made

(* The data store gives back what was recorded. *)
LEMMA ReloadIsInverse ==
  ASSUME NEW r, Made(r), Word(r.room)
  PROVE  /\ Reloadable(PersistData(r)) /\ Reload(PersistData(r)) = r
         /\ \A f \in DOMAIN r \ {"payload"} : PersistData(r)[f] = r[f]
<1>. DEFINE d == PersistData(r)
<1>1. /\ d = [r EXCEPT !.payload = [json |-> r.payload]]
      /\ d.payload = [json |-> r.payload] /\ d.payload.json = r.payload
      /\ \A f \in DOMAIN r \ {"payload"} : d[f] = r[f]
  BY DEF PersistData, Made, Event
<1>2. r.operation \in Texts /\ Or(d.operation, Upsert) = r.operation
  BY <1>1, WordText DEF Made, Event
<1>3. PositiveInt(d.schemaVersion, "one") = r.schemaVersion /\ PositiveInt(d.revision, "one") = r.revision
  BY <1>1 DEF Made, Event, PositiveInt
<1>4. (IF d.key_id = Absent \/ Strip(d.key_id) = Empty THEN Absent ELSE Strip(d.key_id)) = r.key_id
  BY <1>1, WordText DEF Made, Event
<1>5. Reload(d) = [r EXCEPT !.schemaVersion = @, !.operation = @, !.revision = @,
                            !.payload = @, !.key_id = @]
  BY <1>1, <1>2, <1>3, <1>4 DEF Reload, Made, Event
<1>6. Reload(d) = r
  BY <1>5 DEF Made, Event
<1>7. Reloadable(d)
  BY <1>1, WordText, NullsFresh DEF Reloadable, Made, Event
<1>. QED BY <1>1, <1>6, <1>7

-----------------------------------------------------------------------------
(* The invariant *)

(* A record of the event that the members were sent. *)
Recorded(r) ==
  /\ Made(r) /\ Word(r.room)
  /\ live # Absent => SameEvent(ToWire(r), live)

Inv ==
  /\ message \in Message /\ sender \in Senders /\ Sendable /\ sent \in BOOLEAN
  /\ clock \in Clocks
  /\ ~sent => live = Absent /\ cache = Absent /\ row = Absent /\ replay = Absent
  /\ live = Absent \/ WellFormed(live)
  /\ cache = Absent \/ Recorded(cache)
  /\ row = Absent \/ \E r : Recorded(r) /\ row = PersistData(r)
  /\ replay = Absent \/ (WellFormed(replay) /\ (live # Absent => SameEvent(replay, live)))

LEMMA MadeIsWellFormed ==
  ASSUME NEW r, Made(r) PROVE WellFormed(r) /\ WellFormed(ToWire(r)) /\ WellFormed(PersistData(r))
<1>1. WellFormed(r)
  BY DEF Made, WellFormed
<1>2. WellFormed(ToWire(r))
  BY DEF Made, WellFormed, ToWire, Event
<1>3. PersistData(r).payload = [json |-> r.payload] /\ r.payload \in Payloads
  BY DEF PersistData, Made, Event
<1>4. PersistData(r).payload # NotObject
  BY <1>3, NullsFresh
<1>5. \A f \in DOMAIN r \ {"payload"} : PersistData(r)[f] = r[f]
  BY DEF Made, PersistData, Event
<1>6. WellFormed(PersistData(r))
  BY <1>4, <1>5 DEF Made, WellFormed, Event
<1>. QED BY <1>1, <1>2, <1>6

(* What is recorded of an event is the event that was sent. *)
LEMMA NormalizedIsSame ==
  ASSUME NEW e, Made(e), Word(e.room), Normalizable(e),
         e.createdAt \in CreatedTimes
  PROVE  SameEvent(ToWire(Normalized(e)), e)
<1>. DEFINE w == ToWire(Normalized(e))
<1>1. /\ w.id = Strip(e.id) /\ w.room = Strip(e.room) /\ w.transmitter = Strip(e.transmitter)
      /\ w.type = Strip(e.type) /\ w.operation = Strip(e.operation)
      /\ w.objectId = Strip(e.objectId)
      /\ w.key_id = (IF e.key_id = Absent THEN Absent ELSE Strip(e.key_id))
      /\ w.payload = e.payload
      /\ w.schemaVersion = PositiveInt(e.schemaVersion, "zero")
      /\ w.revision = PositiveInt(e.revision, "zero")
      /\ w.receivedAt = ToMillis(Coerce(e.receivedAt))
      /\ w.createdAt = ToMillis(Coerce(e.createdAt))
      /\ w.transmitterName = Strip(Or(e.transmitterName, Strip(e.transmitter)))
  BY DEF ToWire, Normalized
<1>2. \A f \in DOMAIN e \ {"createdAt", "receivedAt", "transmitterName"} : w[f] = e[f]
  BY <1>1 DEF Made, Event, Word, PositiveInt
<1>3. /\ SameTime(w.createdAt, e.createdAt) \/ e.createdAt = "beyond"
      /\ SameTime(w.receivedAt, e.receivedAt)
  <2>1. e.receivedAt # "beyond"
    BY DEF Made, Event, Clocks
  <2>. QED BY <1>1, <2>1 DEF Coerce, SameTime
<1>4. w.transmitterName = e.transmitterName \/ ~Word(e.transmitterName)
  BY <1>1 DEF Word, Or
<1>. QED BY <1>2, <1>3, <1>4 DEF SameEvent

LEMMA SameIsReflexive == ASSUME NEW e PROVE SameEvent(e, e)
BY DEF SameEvent, SameTime

(* RecordNormalized keeps the three records in agreement with what is sent *)
(* in the same step, be it the event that was normalized or its wire form. *)
LEMMA RecordNormalizedKeeps ==
  ASSUME NEW r, Made(r), Word(r.room), cache = Absent, row = Absent,
         live' = Absent \/ SameEvent(ToWire(r), live'), RecordNormalized(r)
  PROVE  /\ cache' = Absent \/ Recorded(cache)'
         /\ row' = Absent \/ (\E q : Recorded(q) /\ row = PersistData(q))'
<1>1. CASE r.room \in PersistentRooms
  <2>1. cache' = r /\ row' \in {PersistData(r), Absent}
    BY <1>1 DEF RecordNormalized
  <2>2. Made(r)' /\ Word(r.room)' /\ (live # Absent => SameEvent(ToWire(r), live))'
    BY <2>1 DEF Made, Word, Event, Strip, Texts, Empty, Text, SameEvent, SameTime, ToWire, ToMillis
  <2>. QED BY <2>1, <2>2 DEF Recorded, PersistData
<1>2. CASE r.room \notin PersistentRooms
  BY <1>2 DEF RecordNormalized
<1>. QED BY <1>1, <1>2

LEMMA RecordKeeps ==
  ASSUME NEW e, Made(e), cache = Absent, row = Absent, live' \in {Absent, e}, Record(e),
         e.createdAt \in CreatedTimes
  PROVE  /\ cache' = Absent \/ Recorded(cache)'
         /\ row' = Absent \/ (\E q : Recorded(q) /\ row = PersistData(q))'
<1>1. CASE e.room \in PersistentRooms /\ Normalizable(e)
  <2>1. Made(Normalized(e)) /\ Word(Normalized(e).room)
    BY <1>1, NormalizedIsMade DEF Made
  <2>2. SameEvent(ToWire(Normalized(e)), e)
    BY <1>1, NormalizedIsSame, RoomsNamed
  <2>. QED BY <1>1, <2>1, <2>2, RecordNormalizedKeeps DEF Record
<1>2. CASE ~(e.room \in PersistentRooms /\ Normalizable(e))
  BY <1>2 DEF Record
<1>. QED BY <1>1, <1>2

-----------------------------------------------------------------------------
(* The steps *)

LEMMA InvInit == Init => Inv
BY MessagesTyped DEF Init, Inv

(* What the client and the server make of a message. *)
LEMMA ClientEvent ==
  ASSUME Inv, Accepted
  PROVE  Made(CreateEvent(ClientArgs))
<1>1. ClientArgs \in Message /\ ClientArgs.room # Absent
  BY OrText, StripText, KnownTexts DEF Inv, Accepted, ClientArgs, Message
<1>. QED BY <1>1, CreatedIsMade DEF Accepted, Inv

LEMMA ServerEvent ==
  ASSUME Inv, Creatable(ServerArgs)
  PROVE  Made(CreateEvent(ServerArgs))
<1>1. message \in Message
  BY DEF Inv
<1>2. /\ Or(message.room, Empty) \in Texts
      /\ (IF message.type = Absent THEN Chat ELSE message.type) \in Texts
      /\ (IF message.operation = Absent THEN Upsert ELSE message.operation) \in Texts
  BY <1>1, OrText, KnownTexts DEF Message
<1>3. ServerArgs \in Message /\ ServerArgs.room \in Texts
  BY <1>1, <1>2, ZenonT(60) DEF ServerArgs, Message
<1>. QED BY <1>3, CreatedIsMade, NullsFresh DEF Inv

LEMMA CreatedTime ==
  ASSUME NEW m, m.createdAt \in GivenTimes, Creatable(m), clock \in Clocks
  PROVE  CreateEvent(m).createdAt \in CreatedTimes
BY DEF Creatable, CreateEvent, Millis, GivenTimes, CreatedTimes

LEMMA MadeIsPresent == ASSUME NEW e, Made(e) PROVE e # Absent
BY NullsFresh DEF Made

LEMMA ClientKeeps == Inv /\ ClientSends => Inv'
<1>. SUFFICES ASSUME Inv, ClientSends PROVE Inv'
  OBVIOUS
<1>. DEFINE e == CreateEvent(ClientArgs)
<1>1. /\ message' = message /\ sender' = sender /\ clock' = clock /\ sent' = TRUE /\ replay' = replay
      /\ live = Absent /\ cache = Absent /\ row = Absent /\ replay = Absent
  BY DEF ClientSends, Inv
<1>2. /\ live' = Absent \/ WellFormed(live')
      /\ cache' = Absent \/ Recorded(cache)'
      /\ row' = Absent \/ (\E q : Recorded(q) /\ row = PersistData(q))'
  <2>1. CASE Accepted
    <3>1. Made(e) /\ WellFormed(e)
      BY <2>1, ClientEvent, MadeIsWellFormed
    <3>2. Record(e) /\ live' = e
      BY <2>1 DEF ClientSends
    <3>3. e.createdAt \in CreatedTimes
      <4>1. /\ message.createdAt \in GivenTimes
            /\ ClientArgs.createdAt = message.createdAt
        BY DEF ClientArgs, Inv, Message, GivenTimes
      <4>2. Creatable(ClientArgs)
        BY <2>1 DEF Accepted
      <4>. QED BY <4>1, <4>2, CreatedTime DEF Inv
    <3>. HIDE DEF e
    <3>4. live' \in {Absent, e} /\ (live' = Absent \/ WellFormed(live'))
      BY <3>1, <3>2
    <3>5. /\ cache' = Absent \/ Recorded(cache)'
          /\ row' = Absent \/ (\E q : Recorded(q) /\ row = PersistData(q))'
      BY <1>1, <3>1, <3>2, <3>3, <3>4, RecordKeeps
    <3>. QED BY <3>4, <3>5
  <2>2. CASE ~Accepted
    BY <1>1, <2>2 DEF ClientSends
  <2>. QED BY <2>1, <2>2
<1>. QED BY <1>1, <1>2 DEF Inv, Sendable

LEMMA ServerKeeps == Inv /\ ServerSends => Inv'
<1>. SUFFICES ASSUME Inv, ServerSends PROVE Inv'
  OBVIOUS
<1>. DEFINE e == CreateEvent(ServerArgs)
<1>1. /\ message' = message /\ sender' = sender /\ clock' = clock /\ sent' = TRUE /\ replay' = replay
      /\ live = Absent /\ cache = Absent /\ row = Absent /\ replay = Absent
  BY DEF ServerSends, Inv
<1>2. /\ live' = Absent \/ WellFormed(live')
      /\ cache' = Absent \/ Recorded(cache)'
      /\ row' = Absent \/ (\E q : Recorded(q) /\ row = PersistData(q))'
  <2>1. CASE Creatable(ServerArgs)
    <3>1. Made(e) /\ WellFormed(e)
      BY <2>1, ServerEvent, MadeIsWellFormed
    <3>2. Record(e) /\ live' \in {Absent, e}
      BY <1>1, <2>1 DEF ServerSends
    <3>3. e.createdAt \in CreatedTimes
      <4>1. /\ message.createdAt \in GivenTimes
            /\ ServerArgs.createdAt = message.createdAt
        BY DEF ServerArgs, Inv, Message, GivenTimes
      <4>2. Creatable(ServerArgs)
        BY <2>1 DEF Accepted
      <4>. QED BY <4>1, <4>2, CreatedTime DEF Inv
    <3>. HIDE DEF e
    <3>4. live' \in {Absent, e} /\ (live' = Absent \/ WellFormed(live'))
      BY <3>1, <3>2
    <3>5. /\ cache' = Absent \/ Recorded(cache)'
          /\ row' = Absent \/ (\E q : Recorded(q) /\ row = PersistData(q))'
      BY <1>1, <3>1, <3>2, <3>3, <3>4, RecordKeeps
    <3>. QED BY <3>4, <3>5
  <2>2. CASE ~Creatable(ServerArgs)
    BY <1>1, <2>2 DEF ServerSends
  <2>. QED BY <2>1, <2>2
<1>. QED BY <1>1, <1>2 DEF Inv, Sendable

LEMMA BusKeeps == Inv /\ BusSends => Inv'
<1>. SUFFICES ASSUME Inv, BusSends PROVE Inv'
  OBVIOUS
<1>. DEFINE args == [message EXCEPT !.room = Or(@, Empty)]
            e == BuildServerEvent(args)
            r == Normalized(e)
<1>1. /\ message' = message /\ sender' = sender /\ clock' = clock /\ sent' = TRUE /\ replay' = replay
      /\ live = Absent /\ cache = Absent /\ row = Absent /\ replay = Absent
  BY DEF BusSends, Inv
<1>2. /\ live' = Absent \/ WellFormed(live')
      /\ cache' = Absent \/ Recorded(cache)'
      /\ row' = Absent \/ (\E q : Recorded(q) /\ row = PersistData(q))'
  <2>1. CASE Buildable(args) /\ Normalizable(e)
    <3>1. args \in Message /\ args.room # Absent /\ args.transmitterName # Absent
      BY OrText, KnownTexts, NullsFresh DEF Inv, Sendable, BusSends, Message
    <3>2. Made(r) /\ Word(r.room)
      BY <2>1, <3>1, BuiltIsEvent, NormalizedIsMade DEF Inv
    <3>3. RecordNormalized(r) /\ live' \in {Absent, ToWire(r)}
      BY <1>1, <2>1 DEF BusSends
    <3>4. SameEvent(ToWire(r), ToWire(r)) /\ WellFormed(ToWire(r))
      BY <3>2, SameIsReflexive, MadeIsWellFormed
    <3>. QED BY <1>1, <3>2, <3>3, <3>4, RecordNormalizedKeeps
  <2>2. CASE ~(Buildable(args) /\ Normalizable(e))
    BY <1>1, <2>2 DEF BusSends
  <2>. QED BY <2>1, <2>2
<1>. QED BY <1>1, <1>2 DEF Inv, Sendable

LEMMA RestartKeeps == Inv /\ Restart => Inv'
<1>. SUFFICES ASSUME Inv, Restart PROVE Inv'
  OBVIOUS
<1>1. /\ message' = message /\ sender' = sender /\ clock' = clock /\ sent' = sent /\ sent /\ replay' = Absent
      /\ live' = live /\ row' = row
  BY DEF Restart
<1>2. cache' = Absent \/ Recorded(cache)'
  <2>1. CASE row # Absent /\ Reloadable(row)
    <3>1. PICK r : Recorded(r) /\ row = PersistData(r)
      BY <2>1 DEF Inv
    <3>2. cache' = r
      BY <2>1, <3>1, ReloadIsInverse DEF Restart, Recorded
    <3>. QED BY <1>1, <3>1, <3>2 DEF Recorded
  <2>2. CASE ~(row # Absent /\ Reloadable(row))
    BY <2>2 DEF Restart
  <2>. QED BY <2>1, <2>2
<1>3. row' = Absent \/ (\E q : Recorded(q) /\ row = PersistData(q))'
  BY <1>1 DEF Inv, Recorded
<1>. QED BY <1>1, <1>2, <1>3 DEF Inv, Sendable

LEMMA JoinKeeps == Inv /\ Join => Inv'
<1>. SUFFICES ASSUME Inv, Join PROVE Inv'
  OBVIOUS
<1>1. /\ message' = message /\ sender' = sender /\ clock' = clock /\ sent' = sent
      /\ live' = live /\ row' = row /\ cache' = cache /\ replay' = ToWire(cache)
      /\ cache # Absent
  BY DEF Join
<1>2. sent
  BY <1>1 DEF Inv
<1>3. Recorded(cache)
  BY <1>1 DEF Inv
<1>4. WellFormed(replay') /\ (live' # Absent => SameEvent(replay', live'))
  BY <1>1, <1>3, MadeIsWellFormed DEF Recorded
<1>5. Recorded(cache)' /\ (row' = Absent \/ (\E q : Recorded(q) /\ row = PersistData(q))')
  BY <1>1, <1>3 DEF Inv, Recorded
<1>. QED BY <1>1, <1>2, <1>4, <1>5 DEF Inv, Sendable

(* Every record of an event agrees with what was sent of it, in RAM and in *)
(* the data store, and whatever sender, message and failure there was.     *)
THEOREM Invariant == Spec => []Inv
<1>1. Inv /\ [Next]_vars => Inv'
  <2>. SUFFICES ASSUME Inv, [Next]_vars PROVE Inv'
    OBVIOUS
  <2>1. CASE UNCHANGED vars
    BY <2>1 DEF Inv, Sendable, Recorded, vars
  <2>. QED BY <2>1, ClientKeeps, ServerKeeps, BusKeeps, RestartKeeps, JoinKeeps DEF Next
<1>. QED BY InvInit, <1>1, PTL DEF Spec

-----------------------------------------------------------------------------
(* The properties *)

(* TypeOK: whatever the sender gives, what is sent live, kept, saved and   *)
(* sent later has names that are not blank, a revision and a payload.      *)
THEOREM EventsAreWellFormed == Spec => []TypeOK
<1>1. Inv => TypeOK
  <2>. SUFFICES ASSUME Inv PROVE TypeOK
    OBVIOUS
  <2>1. cache = Absent \/ WellFormed(cache)
    BY MadeIsWellFormed DEF Inv, Recorded
  <2>2. row = Absent \/ WellFormed(row)
    BY MadeIsWellFormed DEF Inv, Recorded
  <2>. QED BY <2>1, <2>2 DEF Inv, TypeOK
<1>. QED BY Invariant, <1>1, PTL

(* ReplayIsLive: a later member is sent what the members were sent, be it  *)
(* from the RAM history or, after a restart, from the data store, the      *)
(* times to the millisecond or the one beside.                             *)
THEOREM LaterIsTheSame == Spec => []ReplayIsLive
<1>1. Inv => ReplayIsLive
  BY DEF Inv, ReplayIsLive
<1>. QED BY Invariant, <1>1, PTL

(* AcceptedIsRecorded: the processor refuses no event that the service has *)
(* made and that the members are sent, but for its time.                   *)
THEOREM NothingAcceptedIsRefused == Spec => AcceptedIsRecorded
<1>. DEFINE A == live' # live /\ live'.room \in PersistentRooms
                   => cache' # Absent \/ live'.createdAt = "vast"
<1>1. Inv /\ [Next]_vars => [A]_vars
  <2>. SUFFICES ASSUME Inv, Next, live' # live, live'.room \in PersistentRooms,
                       live'.createdAt # "vast"
                PROVE  cache' # Absent
    BY DEF vars
  <2>1. ASSUME NEW e, Made(e), live' = e, Record(e) PROVE cache' # Absent
    <3>1. Word(e.room) /\ Coercible(e.createdAt)
      BY <2>1, RoomsNamed DEF Coercible
    <3>2. Normalizable(e)
      BY <2>1, <3>1, MadeIsNormalizable
    <3>3. Made(Normalized(e))
      BY <2>1, <3>2, NormalizedIsMade DEF Made
    <3>4. Normalized(e).room = e.room
      BY <3>1 DEF Normalized, Word
    <3>5. cache' = Normalized(e)
      BY <2>1, <3>2, <3>4 DEF Record, RecordNormalized
    <3>. QED BY <3>3, <3>5, MadeIsPresent
  <2>2. CASE ClientSends
    <3>1. Accepted
      BY <2>2 DEF ClientSends
    <3>. DEFINE e == CreateEvent(ClientArgs)
    <3>2. Made(e) /\ live' = e /\ Record(e)
      BY <2>2, <3>1, ClientEvent DEF ClientSends
    <3>. HIDE DEF e
    <3>. QED BY <2>1, <3>2
  <2>3. CASE ServerSends
    <3>1. Creatable(ServerArgs)
      BY <2>3 DEF ServerSends
    <3>. DEFINE e == CreateEvent(ServerArgs)
    <3>2. Made(e) /\ live' = e /\ Record(e)
      BY <2>3, <3>1, ServerEvent DEF ServerSends
    <3>. HIDE DEF e
    <3>. QED BY <2>1, <3>2
  <2>4. CASE BusSends
    <3>. DEFINE args == [message EXCEPT !.room = Or(@, Empty)]
                e == BuildServerEvent(args)
                r == Normalized(e)
    <3>1. /\ Buildable(args) /\ Normalizable(e)
          /\ RecordNormalized(r) /\ live' = ToWire(r)
      BY <2>4 DEF BusSends
    <3>2. args \in Message /\ args.room # Absent /\ args.transmitterName # Absent
      <4>1. message \in Message /\ sender = "bus" /\ message.transmitterName # Absent
        BY <2>4 DEF Inv, Sendable, BusSends
      <4>2. Or(message.room, Empty) \in Texts
        BY <4>1, OrText, KnownTexts DEF Message
      <4>. QED BY <4>1, <4>2, NullsFresh DEF Message
    <3>3. Made(r)
      BY <3>1, <3>2, BuiltIsEvent, NormalizedIsMade DEF Inv
    <3>4. r.room = live'.room
      BY <3>1, <3>3 DEF ToWire, Made, Event
    <3>. HIDE DEF r
    <3>5. cache' = r
      BY <3>1, <3>4 DEF RecordNormalized
    <3>. QED BY <3>3, <3>5, MadeIsPresent
  <2>5. CASE Restart \/ Join
    BY <2>5 DEF Restart, Join
  <2>. QED BY <2>2, <2>3, <2>4, <2>5 DEF Next
<1>. QED BY Invariant, <1>1, PTL DEF Spec, AcceptedIsRecorded

-----------------------------------------------------------------------------
(* The message bus: what the router's loop publishes, for any routes.      *)

(* Concatenating sequences that are not empty gives at least one element   *)
(* for each, and exactly one if each has one.                              *)
LEMMA Flattened ==
  ASSUME NEW C, NEW seqs \in Seq(Seq(C)), \A i \in 1..Len(seqs) : seqs[i] # <<>>
  PROVE  /\ FlattenSeq(seqs) \in Seq(C)
         /\ Len(FlattenSeq(seqs)) >= Len(seqs)
         /\ (\A i \in 1..Len(seqs) : Len(seqs[i]) = 1) => Len(FlattenSeq(seqs)) = Len(seqs)
<1> DEFINE L == Len(seqs)
           body(f) == [i \in 1..L |-> IF i = 1 THEN seqs[i] ELSE f[i - 1] \o seqs[i]]
           flatten == CHOOSE f : f = body(f)
           ones == \A i \in 1..L : Len(seqs[i]) = 1
<1>1. /\ L \in Nat /\ \A i \in 1..L : seqs[i] \in Seq(C) /\ Len(seqs[i]) \in Nat \ {0}
  <2>1. L \in Nat /\ \A i \in 1..L : seqs[i] \in Seq(C)
    BY ElementOfSeq, LenProperties
  <2>. QED BY <2>1, EmptySeq
<1>2. CASE L = 0
  <2>1. FlattenSeq(seqs) = seqs /\ seqs = <<>>
    BY <1>2, EmptySeq DEF FlattenSeq
  <2>. QED BY <1>2, <2>1, EmptySeq
<1>3. CASE L # 0
  <2> DEFINE step == [p \in (1..L) \X Seq(C) |->
                        IF p[1] = 1 THEN seqs[1] ELSE p[2] \o seqs[p[1]]]
  <2>1. /\ step \in [(1..L) \X Seq(C) -> Seq(C)]
        /\ \A i \in 1..L, a \in Seq(C) :
             step[<<i, a>>] = IF i = 1 THEN seqs[i] ELSE a \o seqs[i]
    <3>1. \A i \in 1..L, a \in Seq(C) : a \o seqs[i] \in Seq(C)
      BY <1>1, ConcatProperties
    <3>2. \A p \in (1..L) \X Seq(C) : p[1] \in 1..L /\ p[2] \in Seq(C)
      OBVIOUS
    <3>3. \A p \in (1..L) \X Seq(C) :
            (IF p[1] = 1 THEN seqs[1] ELSE p[2] \o seqs[p[1]]) \in Seq(C)
      <4>1. 1 \in 1..L /\ seqs[1] \in Seq(C)
        BY <1>1, <1>3
      <4>. QED BY <3>1, <3>2, <4>1
    <3>4. step \in [(1..L) \X Seq(C) -> Seq(C)]
      BY <3>3
    <3>5. \A i \in 1..L, a \in Seq(C) :
             step[<<i, a>>] = IF i = 1 THEN seqs[i] ELSE a \o seqs[i]
      OBVIOUS
    <3>. QED BY <3>4, <3>5
  <2> HIDE DEF step
  <2>2. <<>> \in Seq(C)
    BY EmptySeq
  <2>3. PICK f \in [0..L -> Seq(C)] :
          f[0] = <<>> /\ \A i \in 1..L : f[i] = step[<<i, f[i - 1]>>]
    <3> DEFINE S == Seq(C)
               first == <<>>
    <3>1. L \in Nat /\ step \in Steps(L, S) /\ first \in S
      BY <1>1, <2>1, <2>2 DEF Steps
    <3> HIDE DEF L, S, first
    <3>2. \E f : Loop(f, L, S, first, step)
      BY <3>1, LoopValues
    <3>. QED BY <3>2 DEF S, first, Loop
  <2> DEFINE g == [i \in 1..L |-> f[i]]
  <2>4. \A i \in 1..L : g[i] = IF i = 1 THEN seqs[i] ELSE g[i - 1] \o seqs[i]
    <3> SUFFICES ASSUME NEW i \in 1..L
                 PROVE  g[i] = IF i = 1 THEN seqs[i] ELSE g[i - 1] \o seqs[i]
      OBVIOUS
    <3>0. L \in Nat
      BY <1>1
    <3> HIDE DEF L
    <3>1. i - 1 \in 0..L /\ f[i - 1] \in Seq(C) /\ g[i] = f[i]
      BY <3>0
    <3>2. i # 1 => g[i - 1] = f[i - 1]
      BY <1>1
    <3> HIDE DEF g
    <3>. QED BY <2>1, <2>3, <3>1, <3>2
  <2>5. g = body(g)
    BY <2>4
  <2>6. flatten = body(flatten)
    <3> HIDE DEF g, body
    <3>1. \E h : h = body(h)
      BY <2>5
    <3>. QED BY <3>1, Zenon
  <2> HIDE DEF flatten, g
  <2>7. \A i \in 1..L : flatten[i] = IF i = 1 THEN seqs[i] ELSE flatten[i - 1] \o seqs[i]
    BY <2>6
  <2> HIDE DEF body
  <2> DEFINE Good(i) == /\ flatten[i] \in Seq(C) /\ Len(flatten[i]) >= i
                        /\ ones => Len(flatten[i]) = i
             T == {i \in 0..L : i = 0 \/ Good(i)}
  <2>0. ones => \A i \in 1..L : Len(seqs[i]) = 1
    OBVIOUS
  <2>8. ASSUME NEW i \in 1..L, i - 1 \in T PROVE i \in T
    <3>1. CASE i = 1
      <4>1. flatten[i] = seqs[i]
        BY <2>7, <3>1
      <4>2. Good(i)
        BY <1>1, <3>1, <4>1
      <4>. QED BY <1>1, <4>2
    <3>2. CASE i # 1
      <4>1. Good(i - 1)
        BY <1>1, <2>8, <3>2
      <4>2. flatten[i] = flatten[i - 1] \o seqs[i]
        BY <2>7, <3>2
      <4>3. /\ flatten[i - 1] \o seqs[i] \in Seq(C)
            /\ Len(flatten[i - 1] \o seqs[i]) = Len(flatten[i - 1]) + Len(seqs[i])
        BY <1>1, <4>1, ConcatProperties
      <4>4. Len(flatten[i - 1]) \in Nat /\ Len(seqs[i]) \in Nat \ {0}
        BY <1>1, <4>1, LenProperties
      <4>5. Good(i)
        <5>1. ones => Len(seqs[i]) = 1
          BY <2>0
        <5> DEFINE before == Len(flatten[i - 1])
                   added == Len(seqs[i])
                   now == Len(flatten[i])
        <5>2. /\ i \in Nat /\ before \in Nat /\ added \in Nat /\ added >= 1
              /\ now = before + added /\ before >= i - 1
          BY <1>1, <4>1, <4>2, <4>3, <4>4
        <5>3. ones => before = i - 1 /\ added = 1
          BY <4>1, <5>1
        <5>4. flatten[i] \in Seq(C)
          BY <4>2, <4>3
        <5> HIDE DEF ones, before, added, now
        <5>5. now >= i
          BY <5>2
        <5>6. ones => now = i
          BY <5>2, <5>3
        <5>. QED BY <5>4, <5>5, <5>6 DEF now
      <4>. QED BY <1>1, <4>5
    <3>. QED BY <3>1, <3>2
  <2>9. 0 \in T
    BY <1>1
  <2>10. \A i \in T : i = 0 \/ Good(i)
    <3> HIDE DEF Good
    <3>. QED OBVIOUS
  <2> HIDE DEF T, Good, ones
  <2>11. L \in T
    <3>1. L \in Nat /\ L \in 0..L /\ \A i \in 1..L : i - 1 \in T => i \in T
      BY <1>1, <2>8
    <3> HIDE DEF L
    <3>. QED BY <2>9, <3>1, CountingUp
  <2>12. Good(L)
    BY <1>1, <1>3, <2>10, <2>11
  <2>13. FlattenSeq(seqs) = flatten[L]
    BY <1>3 DEF FlattenSeq, flatten, body
  <2>. QED BY <2>12, <2>13 DEF Good, ones
<1>. QED BY <1>2, <1>3

(* Folding a text makes it no shorter.                                     *)
LEMMA FoldLength ==
  ASSUME NEW t \in Seq(Characters)
  PROVE  /\ Fold(t) \in Seq(Characters)
         /\ Len(Fold(t)) >= Len(t)
         /\ (\A i \in 1..Len(t) : Len(CaseFold[t[i]]) = 1) => Len(Fold(t)) = Len(t)
<1> DEFINE e(i) == CaseFold[t[i]]
           seqs == [i \in 1..Len(t) |-> e(i)]
<1>1. Len(t) \in Nat /\ DOMAIN t = 1..Len(t) /\ \A i \in 1..Len(t) : t[i] \in Characters
  BY LenProperties, ElementOfSeq
<1>2. \A i \in 1..Len(t) : e(i) \in Seq(Characters) /\ e(i) # <<>>
  BY <1>1, FoldsToSomething
<1>3. \A i \in 1..Len(t) : seqs[i] = e(i)
  OBVIOUS
<1>4. seqs \in Seq(Seq(Characters))
  <2> HIDE DEF e
  <2>. QED BY <1>1, <1>2, IsASeq
<1>5. Len(seqs) = Len(t)
  BY <1>1, <1>4, LenProperties
<1>6. Fold(t) = FlattenSeq(seqs)
  BY <1>1 DEF Fold
<1>7. /\ \A i \in 1..Len(seqs) : seqs[i] # <<>>
      /\ (\A i \in 1..Len(t) : Len(CaseFold[t[i]]) = 1) =>
           \A i \in 1..Len(seqs) : Len(seqs[i]) = 1
  BY <1>2, <1>3, <1>5
<1> HIDE DEF seqs
<1>8. /\ FlattenSeq(seqs) \in Seq(Characters)
      /\ Len(FlattenSeq(seqs)) >= Len(seqs)
      /\ (\A i \in 1..Len(seqs) : Len(seqs[i]) = 1) => Len(FlattenSeq(seqs)) = Len(seqs)
  BY <1>4, <1>7, Flattened
<1>. QED BY <1>5, <1>6, <1>7, <1>8

(* What strip() leaves is from the first to the last character that is not *)
(* white space.                                                            *)
LEMMA Trimmed ==
  ASSUME NEW C, NEW s \in Seq(C)
  PROVE  \/ /\ Trim(s) = <<>>
            /\ \A i \in 1..Len(s) : s[i] \in Spaces
         \/ \E a, z \in 1..Len(s) :
              /\ a <= z /\ Trim(s) = SubSeq(s, a, z) /\ Trim(s) # <<>>
              /\ s[a] \notin Spaces /\ s[z] \notin Spaces
              /\ \A i \in 1..Len(s) : i < a \/ i > z => s[i] \in Spaces
<1> DEFINE black == {i \in DOMAIN s : s[i] \notin Spaces}
           a == CHOOSE i \in black : \A j \in black : i <= j
           z == CHOOSE i \in black : \A j \in black : i >= j
<1>1. Len(s) \in Nat /\ DOMAIN s = 1..Len(s)
  BY LenProperties
<1>2. \A i \in 1..Len(s) : i \in black <=> s[i] \notin Spaces
  BY <1>1
<1>3. black \in SUBSET (1..Len(s)) /\ black \in SUBSET Nat
  BY <1>1
<1>4. CASE black = {}
  BY <1>2, <1>4 DEF Trim
<1>5. CASE black # {}
  <2>1. Trim(s) = SubSeq(s, a, z)
    BY <1>5 DEF Trim
  <2> HIDE DEF black
  <2>2. a \in black /\ \A j \in black : a <= j
    <3>1. \E i \in black : \A j \in black : i <= j
      BY <1>3, <1>5, LeastNumber
    <3>. QED BY <3>1
  <2>3. z \in black /\ \A j \in black : z >= j
    <3>1. \E i \in black : \A j \in black : j <= i
      BY <1>1, <1>3, <1>5, GreatestNumber
    <3>2. \E i \in black : \A j \in black : i >= j
      BY <1>3, <3>1
    <3>. QED BY <3>2
  <2> HIDE DEF a, z
  <2>4. a \in 1..Len(s) /\ z \in 1..Len(s) /\ a <= z
    BY <1>3, <2>2, <2>3
  <2>5. \A i \in 1..Len(s) : i < a \/ i > z => s[i] \in Spaces
    BY <1>2, <1>3, <2>2, <2>3, <2>4
  <2>6. Len(SubSeq(s, a, z)) = z - a + 1
    <3>1. a \in Int /\ z \in Int /\ \A i \in a..z : s[i] \in C
      BY <1>1, <2>4, ElementOfSeq
    <3>. QED BY <2>4, <3>1, SubSeqProperties
  <2>7. Trim(s) # <<>>
    BY <2>1, <2>4, <2>6, EmptySeq
  <2>. QED BY <1>2, <2>1, <2>2, <2>3, <2>4, <2>5, <2>7
<1>. QED BY <1>4, <1>5

(* A slice of what follows the first m elements is a slice of the whole.   *)
LEMMA SliceOfRest ==
  ASSUME NEW C, NEW t \in Seq(C), NEW m \in 0..Len(t),
         NEW a \in 1..Len(t) - m, NEW z \in a..Len(t) - m
  PROVE  SubSeq(SubSeq(t, m + 1, Len(t)), a, z) = SubSeq(t, m + a, m + z)
<1>1. Len(t) \in Nat
  BY LenProperties
<1>2. /\ m + 1 \in 1..Len(t) /\ Len(t) \in 1..Len(t)
      /\ a \in 1..Len(t) - (m + 1) + 1 /\ z \in 1..Len(t) - (m + 1) + 1
  BY <1>1
<1>3. SubSeq(SubSeq(t, m + 1, Len(t)), a, z) = SubSeq(t, (m + 1) + a - 1, (m + 1) + z - 1)
  BY <1>2, SubSeqOfSubSeq
<1>4. (m + 1) + a - 1 = m + a /\ (m + 1) + z - 1 = m + z
  BY <1>1
<1>. QED BY <1>3, <1>4

(* A route as the constructor keeps it                                     *)
Routed(r) == [r EXCEPT !.prefix = Fold(@)]

Configured(r) ==
  /\ r.prefix \in Seq(Characters) \ {<<>>}
  /\ r \in [rooms : SUBSET Texts, prefix : Seq(Characters) \ {<<>>}, source : {r.source}]

LEMMA RoutedFields ==
  ASSUME NEW r, Configured(r)
  PROVE  /\ Routed(r).rooms = r.rooms /\ Routed(r).source = r.source
         /\ Routed(r).prefix = Fold(r.prefix)
         /\ Len(Fold(r.prefix)) \in Nat /\ Len(Fold(r.prefix)) >= 1
<1>1. /\ Routed(r).rooms = r.rooms /\ Routed(r).source = r.source
      /\ Routed(r).prefix = Fold(r.prefix)
  BY DEF Configured, Routed
<1>2. Len(r.prefix) \in Nat /\ Len(r.prefix) # 0
  BY EmptySeq, LenProperties DEF Configured
<1>3. Fold(r.prefix) \in Seq(Characters) /\ Len(Fold(r.prefix)) >= Len(r.prefix)
  BY FoldLength DEF Configured
<1>4. Len(Fold(r.prefix)) \in Nat
  BY <1>3, LenProperties
<1>. QED BY <1>1, <1>2, <1>3, <1>4

(* The remainder of a text that has one                                    *)
LEMMA RemainderIsRest ==
  ASSUME NEW t \in Seq(Characters), NEW m \in Nat
  PROVE  /\ m >= Len(t) => Remainder(t, m) = <<>>
         /\ m < Len(t) => /\ Remainder(t, m) = SubSeq(t, m + 1, Len(t))
                          /\ FirstPart(t, m) = SubSeq(t, 1, m)
                          /\ Remainder(t, m) \in Seq(Characters)
                          /\ Len(Remainder(t, m)) = Len(t) - m
                          /\ \A i \in 1..Len(t) - m : Remainder(t, m)[i] = t[i + m]
<1>1. Len(t) \in Nat
  BY LenProperties
<1>2. CASE m >= Len(t)
  BY <1>1, <1>2 DEF Remainder
<1>3. CASE m < Len(t)
  <2>1. m \in 0..Len(t)
    BY <1>1, <1>3
  <2>2. Remainder(t, m) = SubSeq(t, m + 1, Len(t)) /\ FirstPart(t, m) = SubSeq(t, 1, m)
    BY <1>3 DEF Remainder, FirstPart
  <2> DEFINE s == SubSeq(t, m + 1, Len(t))
  <2>3. /\ s \in Seq(Characters) /\ Len(s) = Len(t) - m
        /\ \A i \in 1..Len(s) : s[i] = t[i + m]
    BY <2>1, SuffixElements
  <2> HIDE DEF s
  <2>4. s = Remainder(t, m)
    BY <2>2 DEF s
  <2>. QED BY <1>1, <1>3, <2>2, <2>3, <2>4 DEF s
<1>. QED BY <1>1, <1>2, <1>3

(* What the router passes on of a message is a prompt addressed to it.     *)
LEMMA PassesOnPrompts ==
  ASSUME NEW r, Configured(r), NEW room, NEW t \in Seq(Characters),
         Addresses(Routed(r), room, t)
  PROVE  Call(Routed(r), t).content \in Prompts(r, room, t)
<1> DEFINE m == Len(Fold(r.prefix))
           s == Remainder(t, m)
<1>1. /\ m \in Nat /\ m >= 1 /\ Len(t) \in Nat /\ DOMAIN t = 1..Len(t)
      /\ room \in r.rooms /\ Call(Routed(r), t).content = Trim(s)
      /\ Fold(FirstPart(t, m)) = Fold(r.prefix)
      /\ s # <<>> => s[1] \in Spaces
      /\ Trim(s) # <<>>
  BY RoutedFields, LenProperties DEF Addresses, Call
<1>2. m < Len(t)
  <2>1. Trim(<<>>) = <<>>
    <3>1. DOMAIN <<>> = {}
      OBVIOUS
    <3>. QED BY <3>1 DEF Trim
  <2>. QED BY <1>1, <2>1, RemainderIsRest
<1>3. /\ s = SubSeq(t, m + 1, Len(t)) /\ FirstPart(t, m) = SubSeq(t, 1, m)
      /\ s \in Seq(Characters) /\ Len(s) = Len(t) - m
      /\ \A i \in 1..Len(t) - m : s[i] = t[i + m]
  BY <1>1, <1>2, RemainderIsRest
<1> HIDE DEF m, s
<1>4. s[1] \in Spaces
  <2>1. Len(s) # 0
    <3> DEFINE n == Len(t)
               l == Len(s)
    <3>1. n \in Nat /\ m \in Nat /\ m < n /\ l = n - m
      BY <1>1, <1>2, <1>3
    <3> HIDE DEF n, l
    <3>2. l # 0
      BY <3>1
    <3>. QED BY <3>2 DEF l
  <2>2. s # <<>>
    BY <2>1, EmptySeq
  <2>. QED BY <1>1, <2>2
<1>5. PICK a, z \in 1..Len(s) :
        /\ a <= z /\ Trim(s) = SubSeq(s, a, z)
        /\ s[a] \notin Spaces /\ s[z] \notin Spaces
        /\ \A i \in 1..Len(s) : i < a \/ i > z => s[i] \in Spaces
  BY <1>1, <1>3, Trimmed
<1> DEFINE n == Len(t)
<1>6. /\ a \in 1..n - m /\ z \in a..n - m /\ m \in 0..n
      /\ m + a \in 1..n /\ m + z \in 1..n /\ m + a <= m + z
      /\ a + m = m + a /\ z + m = m + z
  <2>1. /\ n \in Nat /\ m \in Nat /\ m >= 1 /\ m < n /\ a \in 1..n - m /\ z \in 1..n - m
        /\ a <= z
    BY <1>1, <1>2, <1>3, <1>5
  <2> HIDE DEF n
  <2>. QED BY <2>1
<1>7. Trim(s) = SubSeq(t, m + a, m + z)
  BY <1>3, <1>5, <1>6, SliceOfRest
<1>8. a # 1
  BY <1>4, <1>5
<1>9. t[m + a] = s[a] /\ t[m + z] = s[z]
  BY <1>3, <1>5, <1>6
<1>10. ASSUME NEW x \in m + z + 1..n PROVE t[x] \in Spaces
  <2>1. x - m \in 1..n - m /\ x - m > z /\ (x - m) + m = x
    <3>1. n \in Nat /\ m \in Nat /\ m < n
      BY <1>1, <1>2
    <3> HIDE DEF n
    <3>. QED BY <1>6, <3>1
  <2>. QED BY <1>3, <1>5, <2>1
<1>11. m \in 1..(m + a) - 2
  BY <1>1, <1>6, <1>8
<1>12. ASSUME NEW x \in m + 1..(m + a) - 1 PROVE t[x] \in Spaces
  <2>1. x - m \in 1..n - m /\ x - m < a /\ (x - m) + m = x
    <3>1. n \in Nat /\ m \in Nat /\ m < n
      BY <1>1, <1>2
    <3> HIDE DEF n
    <3>. QED BY <1>6, <3>1
  <2>. QED BY <1>3, <1>5, <2>1
<1>13. PromptAt(r.prefix, t, m + a, m + z)
  BY <1>1, <1>3, <1>5, <1>6, <1>9, <1>10, <1>11, <1>12 DEF PromptAt
<1>14. SubSeq(t, m + a, m + z) \in Prompts(r, room, t)
  <2> DEFINE j == m + a
             k == m + z
             found(x) == {SubSeq(t, x, y) : y \in {l \in DOMAIN t : PromptAt(r.prefix, t, x, l)}}
  <2>1. j \in DOMAIN t /\ k \in DOMAIN t /\ PromptAt(r.prefix, t, j, k)
    BY <1>1, <1>6, <1>13
  <2> HIDE DEF j, k
  <2>2. SubSeq(t, j, k) \in found(j)
    BY <2>1
  <2>3. Prompts(r, room, t) = UNION {found(x) : x \in DOMAIN t}
    BY <1>1 DEF Prompts
  <2> HIDE DEF found
  <2>4. SubSeq(t, j, k) \in Prompts(r, room, t)
    BY <2>1, <2>2, <2>3
  <2>. QED BY <2>4 DEF j, k
<1>. QED BY <1>1, <1>7, <1>14

(* A prompt addressed to a route in a text that folding leaves as long as  *)
(* it is, is passed on.                                                    *)
LEMMA PromptsAreAddressed ==
  ASSUME NEW r, Configured(r), NEW room, NEW t \in Seq(Characters),
         \A i \in 1..Len(t) : Len(CaseFold[t[i]]) = 1,
         Prompts(r, room, t) # {}
  PROVE  Addresses(Routed(r), room, t)
<1> DEFINE m == Len(Fold(r.prefix))
           s == Remainder(t, m)
<1>1. /\ m \in Nat /\ m >= 1 /\ Len(t) \in Nat /\ DOMAIN t = 1..Len(t)
      /\ \A i \in 1..Len(t) : t[i] \in Characters
  BY RoutedFields, LenProperties, ElementOfSeq
<1>2. room \in r.rooms
  BY DEF Prompts
<1>3. PICK j \in 1..Len(t) : \E k \in 1..Len(t) : PromptAt(r.prefix, t, j, k)
  BY <1>1, <1>2 DEF Prompts
<1>4. PICK i \in 1..j - 2 :
        /\ Fold(SubSeq(t, 1, i)) = Fold(r.prefix)
        /\ \A x \in i + 1..j - 1 : t[x] \in Spaces
  BY <1>3 DEF PromptAt
<1>5. t[j] \notin Spaces
  BY <1>3 DEF PromptAt
<1>6. i \in Nat /\ i < Len(t) /\ i + 1 \in i + 1..j - 1 /\ i + 1 \in 1..Len(t)
  BY <1>1, <1>3, <1>4
<1>7. Len(Fold(SubSeq(t, 1, i))) = i
  <2> DEFINE u == SubSeq(t, 1, i)
  <2>1. /\ u \in Seq(Characters) /\ Len(u) = i
        /\ \A x \in 1..i : u[x] = t[x]
    <3>1. 1 \in Int /\ i \in Int /\ 1 <= i /\ i - 1 + 1 = i /\ \A x \in 1..i : t[x] \in Characters
      BY <1>1, <1>4, <1>6
    <3>2. \A x \in 1..i : 1 + x - 1 = x
      OBVIOUS
    <3>3. /\ u \in Seq(Characters) /\ Len(u) = i - 1 + 1
          /\ \A x \in 1..i - 1 + 1 : u[x] = t[1 + x - 1]
      BY <3>1, SubSeqProperties
    <3>. QED BY <3>1, <3>2, <3>3
  <2> HIDE DEF u
  <2>2. \A x \in 1..Len(u) : Len(CaseFold[u[x]]) = 1
    BY <1>1, <1>6, <2>1
  <2>3. Len(Fold(u)) = Len(u)
    BY <2>1, <2>2, FoldLength
  <2>. QED BY <2>1, <2>3 DEF u
<1>8. m = i
  BY <1>4, <1>7
<1> HIDE DEF m
<1>9. /\ FirstPart(t, m) = SubSeq(t, 1, m)
      /\ s \in Seq(Characters) /\ Len(s) = Len(t) - m
      /\ \A x \in 1..Len(t) - m : s[x] = t[x + m]
  BY <1>1, <1>6, <1>8, RemainderIsRest
<1> HIDE DEF s
<1>10. Fold(FirstPart(t, m)) = Fold(r.prefix)
  BY <1>4, <1>8, <1>9
<1>11. s[1] \in Spaces
  BY <1>1, <1>4, <1>6, <1>8, <1>9
<1>12. Trim(s) # <<>>
  <2>1. j - m \in 1..Len(s) /\ (j - m) + m = j
    BY <1>1, <1>4, <1>6, <1>8, <1>9
  <2>2. s[j - m] \notin Spaces
    BY <1>5, <1>9, <2>1
  <2>. QED BY <1>9, <2>1, <2>2, Trimmed
<1>. QED BY <1>2, <1>10, <1>11, <1>12, RoutedFields DEF Addresses, m, s

(* The routes that the calls of the bus belong to: how far the loop over   *)
(* the routes has come after n of them.                                    *)
Hit(n, room, t) == Addresses(Routed(Routes[n]), room, t)

Explains(by, calls, n, room, t, raising) ==
  /\ by \in [1..Len(calls) -> 1..n]
  /\ \A i, k \in 1..Len(calls) : i < k => by[i] < by[k]
  /\ \A i \in 1..Len(calls) :
       /\ calls[i] = Call(Routed(Routes[by[i]]), t) /\ Hit(by[i], room, t)
       /\ i < Len(calls) => calls[i].source \notin raising
  /\ \A k \in 1..n : Hit(k, room, t) =>
       \/ \E i \in 1..Len(calls) : by[i] = k
       \/ \E i \in 1..Len(calls) : calls[i].source \in raising /\ by[i] < k

CallsOf(t) == {Call(Routed(Routes[n]), t) : n \in 1..Len(Routes)}

LEMMA RouteSkipped ==
  ASSUME NEW room, NEW t, NEW raising, NEW n \in Nat \ {0}, NEW calls \in Seq(CallsOf(t)), NEW by,
         Explains(by, calls, n - 1, room, t, raising),
         Raised(calls, raising) \/ ~Hit(n, room, t)
  PROVE  Explains(by, calls, n, room, t, raising)
<1>1. Len(calls) \in Nat /\ (calls # <<>> => Len(calls) \in 1..Len(calls))
  BY LenProperties, EmptySeq
<1>2. by \in [1..Len(calls) -> 1..n]
  BY DEF Explains
<1>3. ASSUME NEW k \in 1..n, Hit(k, room, t)
      PROVE  \/ \E i \in 1..Len(calls) : by[i] = k
             \/ \E i \in 1..Len(calls) : calls[i].source \in raising /\ by[i] < k
  <2>1. CASE k = n
    <3>1. Len(calls) \in 1..Len(calls) /\ calls[Len(calls)].source \in raising
      BY <1>1, <1>3, <2>1 DEF Raised
    <3>2. by[Len(calls)] \in 1..n - 1
      BY <3>1 DEF Explains
    <3>3. by[Len(calls)] < k
      BY <2>1, <3>2
    <3>. QED BY <3>1, <3>3
  <2>2. CASE k # n
    <3>1. k \in 1..n - 1
      BY <2>2
    <3>. QED BY <1>3, <3>1 DEF Explains
  <2>. QED BY <2>1, <2>2
<1>. QED BY <1>2, <1>3 DEF Explains

LEMMA RouteCalled ==
  ASSUME NEW room, NEW t, NEW raising, NEW n \in 1..Len(Routes),
         NEW calls \in Seq(CallsOf(t)), NEW by,
         Explains(by, calls, n - 1, room, t, raising),
         ~Raised(calls, raising), Hit(n, room, t)
  PROVE  /\ Append(calls, Call(Routed(Routes[n]), t)) \in Seq(CallsOf(t))
         /\ \E to : Explains(to, Append(calls, Call(Routed(Routes[n]), t)), n, room, t, raising)
<1> DEFINE call == Call(Routed(Routes[n]), t)
           next == Append(calls, call)
           len == Len(calls)
           to == [i \in 1..len + 1 |-> IF i = len + 1 THEN n ELSE by[i]]
<1>1. call \in CallsOf(t)
  BY DEF CallsOf
<1>2. len \in Nat /\ n \in Nat \ {0}
  <2>1. Len(Routes) \in Nat
    BY RoutesConfigured, LenProperties
  <2>. QED BY <2>1, LenProperties
<1>3. /\ next \in Seq(CallsOf(t)) /\ Len(next) = len + 1
      /\ \A i \in 1..len : next[i] = calls[i]
      /\ next[len + 1] = call
  <2> HIDE DEF call
  <2>. QED BY <1>1, AppendProperties
<1>4. len # 0 => calls[len].source \notin raising
  BY EmptySeq DEF Raised
<1>5. /\ by \in [1..len -> 1..n - 1]
      /\ \A i, k \in 1..len : i < k => by[i] < by[k]
      /\ \A i \in 1..len :
           /\ calls[i] = Call(Routed(Routes[by[i]]), t) /\ Hit(by[i], room, t)
           /\ i < len => calls[i].source \notin raising
      /\ \A k \in 1..n - 1 : Hit(k, room, t) =>
           \/ \E i \in 1..len : by[i] = k
           \/ \E i \in 1..len : calls[i].source \in raising /\ by[i] < k
  BY DEF Explains
<1>6. next[len + 1] = Call(Routed(Routes[n]), t)
  BY <1>3
<1> HIDE DEF call, next, len
<1>7. \A i \in 1..len + 1 : i = len + 1 \/ i \in 1..len
  BY <1>2
<1>8. \A i \in 1..len : i \in 1..len + 1 /\ i # len + 1 /\ i < len + 1
  BY <1>2
<1>9. /\ to[len + 1] = n /\ len + 1 \in 1..len + 1
      /\ \A i \in 1..len : to[i] = by[i] /\ to[i] \in 1..n - 1 /\ to[i] \in 1..n /\ to[i] < n
  BY <1>2, <1>5, <1>8
<1>10. to \in [1..len + 1 -> 1..n]
  <2>1. \A i \in 1..len + 1 : to[i] \in 1..n
    <3> HIDE DEF to
    <3>. QED BY <1>2, <1>7, <1>9
  <2>. QED BY <2>1
<1> HIDE DEF to
<1>11. ASSUME NEW i \in 1..len + 1, NEW k \in 1..len + 1, i < k PROVE to[i] < to[k]
  <2>1. i \in 1..len
    BY <1>2, <1>11
  <2>. QED BY <1>5, <1>7, <1>9, <1>11, <2>1
<1>12. ASSUME NEW i \in 1..len + 1
       PROVE  /\ next[i] = Call(Routed(Routes[to[i]]), t) /\ Hit(to[i], room, t)
              /\ i < len + 1 => next[i].source \notin raising
  <2>1. CASE i = len + 1
    BY <1>2, <1>6, <1>9, <2>1
  <2>2. CASE i \in 1..len
    <3>1. i = len \/ i < len
      BY <1>2, <2>2
    <3>2. calls[i].source \notin raising
      BY <1>4, <1>5, <2>2, <3>1
    <3>. QED BY <1>3, <1>5, <1>9, <2>2, <3>2
  <2>. QED BY <1>7, <2>1, <2>2
<1>13. ASSUME NEW k \in 1..n, Hit(k, room, t)
       PROVE  \/ \E i \in 1..len + 1 : to[i] = k
              \/ \E i \in 1..len + 1 : next[i].source \in raising /\ to[i] < k
  <2>1. CASE k = n
    BY <1>9, <2>1
  <2>2. CASE k # n
    <3>1. k \in 1..n - 1
      BY <1>2, <2>2
    <3>. QED BY <1>3, <1>5, <1>8, <1>9, <1>13, <3>1
  <2>. QED BY <2>1, <2>2
<1>14. Explains(to, next, n, room, t, raising)
  BY <1>3, <1>10, <1>11, <1>12, <1>13 DEF Explains
<1>. QED BY <1>3, <1>14 DEF next, call

(* The routes that the configuration gives                                 *)
LEMMA RoutesAre ==
  /\ Len(Routes) \in Nat /\ DOMAIN Routes = 1..Len(Routes)
  /\ \A n \in 1..Len(Routes) : Configured(Routes[n]) /\ Router(Routes)[n] = Routed(Routes[n])
<1>1. Len(Routes) \in Nat /\ DOMAIN Routes = 1..Len(Routes)
  BY RoutesConfigured, LenProperties
<1>2. ASSUME NEW n \in 1..Len(Routes) PROVE Configured(Routes[n])
  <2> DEFINE r == Routes[n]
  <2>1. r \in Range(Routes)
    BY <1>1 DEF Range
  <2>2. r \in [rooms : SUBSET Texts, prefix : Seq(Characters) \ {<<>>}, source : {r.source}]
    BY <2>1, RoutesConfigured
  <2> HIDE DEF r
  <2>3. Configured(r)
    BY <2>2 DEF Configured
  <2>. QED BY <2>3 DEF r
<1>3. \A n \in 1..Len(Routes) : Router(Routes)[n] = Routed(Routes[n])
  BY <1>1 DEF Router, Routed
<1>. QED BY <1>1, <1>2, <1>3

(* What the loop over the routes computes                                  *)
LEMMA PublishedCalls ==
  ASSUME NEW room, NEW t, NEW raising
  PROVE  /\ Publish(Routes, room, t, raising) \in Seq(CallsOf(t))
         /\ \E by : Explains(by, Publish(Routes, room, t, raising), Len(Routes), room, t, raising)
<1> DEFINE N == Len(Routes)
           router == Router(Routes)
           S == Seq(CallsOf(t))
           after(n, c) == IF Raised(c, raising) \/ ~Addresses(router[n], room, t) THEN c
                          ELSE Append(c, Call(router[n], t))
           body(f) == [n \in 0..N |->
                         IF n = 0 THEN <<>>
                         ELSE IF Raised(f[n - 1], raising) \/ ~Addresses(router[n], room, t)
                           THEN f[n - 1]
                         ELSE Append(f[n - 1], Call(router[n], t))]
           calls == CHOOSE f : f = body(f)
           step == [p \in (1..N) \X S |-> after(p[1], p[2])]
           first == <<>>
<1>1. N \in Nat /\ \A n \in 1..N : router[n] = Routed(Routes[n])
  BY RoutesAre
<1>2. Publish(Routes, room, t, raising) = calls[N]
  BY DEF Publish
<1>3. first \in S
  BY EmptySeq
<1>4. \A n \in 1..N, c \in S : after(n, c) \in S
  <2> SUFFICES ASSUME NEW n \in 1..N, NEW c \in S PROVE after(n, c) \in S
    OBVIOUS
  <2>1. Call(router[n], t) \in CallsOf(t)
    BY <1>1 DEF CallsOf
  <2>2. Append(c, Call(router[n], t)) \in S
    BY <2>1, AppendProperties
  <2>. QED BY <2>2
<1>5. step \in Steps(N, S) /\ \A n \in 1..N, c \in S : step[<<n, c>>] = after(n, c)
  <2> HIDE DEF N, S, after
  <2>1. \A p \in (1..N) \X S : p[1] \in 1..N /\ p[2] \in S
    OBVIOUS
  <2>2. \A p \in (1..N) \X S : after(p[1], p[2]) \in S
    BY <1>4, <2>1
  <2>. QED BY <2>2 DEF Steps
<1>6. PICK g : Loop(g, N, S, first, step)
  <2> HIDE DEF N, S, first, step
  <2>. QED BY <1>1, <1>3, <1>5, LoopValues
<1>7. g \in [0..N -> S] /\ g[0] = <<>> /\ \A n \in 1..N : g[n] = step[<<n, g[n - 1]>>]
  BY <1>6 DEF Loop
<1> HIDE DEF step
<1>8. \A n \in 0..N : g[n] = IF n = 0 THEN <<>> ELSE after(n, g[n - 1])
  <2> SUFFICES ASSUME NEW n \in 0..N PROVE g[n] = IF n = 0 THEN <<>> ELSE after(n, g[n - 1])
    OBVIOUS
  <2> HIDE DEF N, S, after
  <2>1. CASE n = 0
    BY <1>7, <2>1
  <2>2. CASE n # 0
    <3>1. n \in 1..N /\ n - 1 \in 0..N
      BY <1>1, <2>2
    <3>2. g[n - 1] \in S
      BY <1>7, <3>1
    <3>. QED BY <1>5, <1>7, <2>2, <3>1, <3>2
  <2>. QED BY <2>1, <2>2
<1>9. g = body(g)
  <2>1. g = [n \in 0..N |-> IF n = 0 THEN <<>> ELSE after(n, g[n - 1])]
    <3> HIDE DEF N, S, after
    <3>. QED BY <1>7, <1>8
  <2>. QED BY <2>1
<1>10. calls = body(calls)
  <2> HIDE DEF body
  <2>1. \E h : h = body(h)
    BY <1>9
  <2>. QED BY <2>1, Zenon
<1> HIDE DEF calls
<1>11. \A n \in 0..N : calls[n] = IF n = 0 THEN <<>> ELSE after(n, calls[n - 1])
  BY <1>10
<1> HIDE DEF body
<1> DEFINE Good(n) == calls[n] \in S /\ \E by : Explains(by, calls[n], n, room, t, raising)
           T == {n \in 0..N : Good(n)}
<1>12. Good(0)
  <2>1. calls[0] = <<>>
    BY <1>1, <1>11
  <2>2. Len(<<>>) = 0 /\ 1..0 = {}
    BY EmptySeq
  <2> DEFINE by == [i \in {} |-> 0]
  <2>3. Explains(by, <<>>, 0, room, t, raising)
    <3>1. by \in [{} -> {}]
      OBVIOUS
    <3> HIDE DEF by
    <3>. QED BY <2>2, <3>1 DEF Explains
  <2> HIDE DEF by
  <2>. QED BY <1>3, <2>1, <2>3
<1>13. ASSUME NEW n \in 1..N, Good(n - 1) PROVE Good(n)
  <2>0. n \in 0..N /\ n # 0 /\ n \in Nat \ {0}
    BY <1>1
  <2>1. PICK by : Explains(by, calls[n - 1], n - 1, room, t, raising)
    BY <1>13
  <2>2. calls[n - 1] \in S /\ calls[n] = after(n, calls[n - 1])
    BY <1>11, <1>13, <2>0
  <2>3. Addresses(router[n], room, t) <=> Hit(n, room, t)
    BY <1>1 DEF Hit
  <2>4. CASE Raised(calls[n - 1], raising) \/ ~Hit(n, room, t)
    <3>1. calls[n] = calls[n - 1]
      BY <2>2, <2>3, <2>4
    <3>2. Explains(by, calls[n - 1], n, room, t, raising)
      BY <2>0, <2>1, <2>2, <2>4, RouteSkipped
    <3>. QED BY <2>2, <3>1, <3>2
  <2>5. CASE ~Raised(calls[n - 1], raising) /\ Hit(n, room, t)
    <3>1. calls[n] = Append(calls[n - 1], Call(Routed(Routes[n]), t))
      BY <1>1, <2>2, <2>3, <2>5
    <3>2. /\ Append(calls[n - 1], Call(Routed(Routes[n]), t)) \in S
          /\ \E to : Explains(to, Append(calls[n - 1], Call(Routed(Routes[n]), t)), n, room, t, raising)
      BY <2>1, <2>2, <2>5, RouteCalled
    <3>. QED BY <3>1, <3>2
  <2>. QED BY <2>4, <2>5
<1> HIDE DEF Good
<1>14. 0 \in T /\ \A n \in 1..N : n - 1 \in T => n \in T
  <2> HIDE DEF N
  <2>. QED BY <1>1, <1>12, <1>13
<1>15. N \in T
  <2>1. N \in 0..N
    BY <1>1
  <2> HIDE DEF N, T
  <2>. QED BY <1>1, <1>14, <2>1, CountingUp
<1>16. Good(N)
  BY <1>15
<1>. QED BY <1>2, <1>16 DEF Good

-----------------------------------------------------------------------------
(* RouterMatches, of one payload p sent as the event e                     *)

Addressed(p, e) ==
  {n \in DOMAIN Routes :
     /\ e # Absent /\ p # NotObject
     /\ p.contentType = "text" /\ ~p.system
     /\ {e.type} = {Chat} /\ {e.operation} = {Upsert}
     /\ Prompts(Routes[n], e.room, p.text) # {}}

Matches(p, e, calls, raising) ==
  \E by \in [DOMAIN calls -> Addressed(p, e)] :
    /\ \A i, k \in DOMAIN calls : i < k => by[i] < by[k]
    /\ \A i \in DOMAIN calls :
         /\ calls[i].source = Routes[by[i]].source
         /\ calls[i].content \in Prompts(Routes[by[i]], e.room, p.text)
         /\ i < Len(calls) => calls[i].source \notin raising
    /\ \A n \in Addressed(p, e) :
         (\A i \in DOMAIN p.text : Len(CaseFold[p.text[i]]) = 1) /\ (\A i \in DOMAIN calls : by[i] # n) =>
           \E i \in DOMAIN calls : calls[i].source \in raising /\ by[i] < n

LEMMA NothingToPublish ==
  ASSUME NEW p, NEW e, NEW raising, Addressed(p, e) = {}
  PROVE  Matches(p, e, <<>>, raising)
<1> DEFINE by == [i \in {} |-> 0]
<1>1. by \in [DOMAIN <<>> -> Addressed(p, e)] /\ DOMAIN <<>> = {}
  OBVIOUS
<1> HIDE DEF by
<1>. QED BY <1>1 DEF Matches

LEMMA LoopMatches ==
  ASSUME NEW p, NEW e, NEW raising, p.text \in Seq(Characters),
         e # Absent, p # NotObject, p.contentType = "text", ~p.system,
         e.type = Chat, e.operation = Upsert
  PROVE  Matches(p, e, Publish(Routes, e.room, p.text, raising), raising)
<1> DEFINE t == p.text
           calls == Publish(Routes, e.room, t, raising)
<1>1. calls \in Seq(CallsOf(t))
  BY PublishedCalls
<1>2. PICK by : Explains(by, calls, Len(Routes), e.room, t, raising)
  BY PublishedCalls
<1>3. /\ Len(t) \in Nat /\ DOMAIN t = 1..Len(t) /\ DOMAIN calls = 1..Len(calls)
      /\ Len(Routes) \in Nat /\ DOMAIN Routes = 1..Len(Routes)
      /\ \A n \in 1..Len(Routes) : Configured(Routes[n])
  BY <1>1, LenProperties, RoutesAre
<1>4. Addressed(p, e) = {n \in 1..Len(Routes) : Prompts(Routes[n], e.room, t) # {}}
  BY <1>3 DEF Addressed
<1> HIDE DEF calls
<1>5. ASSUME NEW i \in 1..Len(calls)
      PROVE  /\ by[i] \in Addressed(p, e)
             /\ calls[i].source = Routes[by[i]].source
             /\ calls[i].content \in Prompts(Routes[by[i]], e.room, t)
             /\ i < Len(calls) => calls[i].source \notin raising
  <2> DEFINE r == Routes[by[i]]
  <2>1. /\ by[i] \in 1..Len(Routes) /\ calls[i] = Call(Routed(r), t)
        /\ Addresses(Routed(r), e.room, t)
        /\ i < Len(calls) => calls[i].source \notin raising
    BY <1>2 DEF Explains, Hit
  <2>2. Configured(r)
    BY <1>3, <2>1
  <2>3. calls[i].source = r.source
    BY <2>1, <2>2, RoutedFields DEF Call
  <2>4. calls[i].content \in Prompts(r, e.room, t)
    <3> HIDE DEF r, t
    <3>1. t \in Seq(Characters)
      BY DEF t
    <3>. QED BY <2>1, <2>2, <3>1, PassesOnPrompts
  <2>. QED BY <1>4, <2>1, <2>3, <2>4
<1>6. by \in [DOMAIN calls -> Addressed(p, e)]
  BY <1>2, <1>3, <1>5 DEF Explains
<1>7. ASSUME NEW n \in Addressed(p, e),
             \A i \in DOMAIN t : Len(CaseFold[t[i]]) = 1,
             \A i \in DOMAIN calls : by[i] # n
      PROVE  \E i \in DOMAIN calls : calls[i].source \in raising /\ by[i] < n
  <2>1. n \in 1..Len(Routes) /\ Configured(Routes[n]) /\ Prompts(Routes[n], e.room, t) # {}
    BY <1>3, <1>4
  <2>2. \A i \in 1..Len(t) : Len(CaseFold[t[i]]) = 1
    BY <1>3, <1>7
  <2>3. Hit(n, e.room, t)
    <3> HIDE DEF t
    <3>1. t \in Seq(Characters)
      BY DEF t
    <3>. QED BY <2>1, <2>2, <3>1, PromptsAreAddressed DEF Hit
  <2>. QED BY <1>2, <1>3, <1>7, <2>1, <2>3 DEF Explains
<1>8. \A i, k \in DOMAIN calls : i < k => by[i] < by[k]
  BY <1>2, <1>3 DEF Explains
<1>9. Matches(p, e, calls, raising)
  BY <1>3, <1>5, <1>6, <1>7, <1>8 DEF Matches
<1>. QED BY <1>9 DEF calls

(* The invariant: nothing is published before the handler has run.         *)
RouterInv ==
  /\ Inv
  /\ ~sent => published = <<>>
  /\ sent /\ sender = "client" => Matches(message.payload, live, published, failing)

LEMMA ClientPublishes ==
  ASSUME Inv, ~sent => published = <<>>, ClientSends
  PROVE  Matches(message.payload, live', published', failing)
<1> DEFINE p == message.payload
           e == CreateEvent(ClientArgs)
           routable == Routable(e.type = Chat /\ e.operation = Upsert, e.payload)
<1>1. live = Absent /\ published = <<>> /\ message \in Message
  BY DEF ClientSends, Inv
<1>2. CASE Accepted
  <2>1. Made(e)
    BY <1>2, ClientEvent
  <2>2. e # Absent
    BY <2>1, MadeIsPresent
  <2>3. live' = e
    BY <1>2 DEF ClientSends
  <2>4. published' = IF routable THEN Publish(Routes, e.room, e.payload.text, failing) ELSE <<>>
    BY <1>2 DEF ClientSends
  <2>5. e.payload = p
    BY <1>1 DEF CreateEvent, ClientArgs, Message
  <2>6. p \in Payloads /\ p # NotObject
    BY <1>1, <2>1, <2>5 DEF Made, Message
  <2>7. p.text \in Seq(Characters) /\ DOMAIN p.text = 1..Len(p.text)
    BY <2>6, TextsSpelled, LenProperties
  <2> HIDE DEF e, p
  <2>8. CASE routable
    <3>1. e.type = Chat /\ e.operation = Upsert /\ p.contentType = "text" /\ ~p.system
      BY <2>5, <2>8 DEF Routable
    <3>2. Matches(p, e, Publish(Routes, e.room, p.text, failing), failing)
      BY <2>2, <2>6, <2>7, <3>1, LoopMatches
    <3>. QED BY <2>3, <2>4, <2>5, <2>8, <3>2 DEF p
  <2>9. CASE ~routable
    <3>1. ASSUME NEW n \in Addressed(p, e) PROVE FALSE
      <4>1. /\ p.contentType = "text" /\ ~p.system /\ e.type = Chat /\ e.operation = Upsert
            /\ Prompts(Routes[n], e.room, p.text) # {}
        BY DEF Addressed
      <4>2. DOMAIN p.text # {}
        BY <4>1 DEF Prompts
      <4>3. p.text # <<>>
        BY <4>2
      <4>. QED BY <2>5, <2>9, <4>1, <4>3 DEF Routable
    <3>2. Matches(p, e, <<>>, failing)
      BY <3>1, NothingToPublish
    <3>. QED BY <2>3, <2>4, <2>9, <3>2 DEF p
  <2>. QED BY <2>8, <2>9
<1>3. CASE ~Accepted
  <2>1. live' = Absent /\ published' = <<>>
    BY <1>1, <1>3 DEF ClientSends
  <2>2. Addressed(p, Absent) = {}
    BY DEF Addressed
  <2>3. Matches(p, Absent, <<>>, failing)
    <3> HIDE DEF p
    <3>. QED BY <2>2, NothingToPublish
  <2>. QED BY <2>1, <2>3
<1>. QED BY <1>2, <1>3

(* RouterMatches: the bus is given the prompts that the messages of        *)
(* clients address to routes, in the order of the routes, up to a listener *)
(* that raises, and, where folding keeps the length of the text, all of    *)
(* them - for any routes, any alphabet, and any way of folding case.       *)
THEOREM OnlyPromptsArePublished == Spec => []RouterMatches
<1>1. Init => RouterInv
  BY InvInit DEF Init, RouterInv
<1>2. RouterInv /\ [Next]_vars => RouterInv'
  <2>1. SUFFICES ASSUME RouterInv, [Next]_vars PROVE RouterInv'
    OBVIOUS
  <2>2. Inv'
    <3>1. Inv
      BY <2>1 DEF RouterInv
    <3>2. CASE UNCHANGED vars
      BY <3>1, <3>2 DEF Inv, Sendable, Recorded, vars
    <3>. QED BY <2>1, <3>1, <3>2, ClientKeeps, ServerKeeps, BusKeeps, RestartKeeps, JoinKeeps DEF Next
  <2>3. CASE ClientSends
    <3>1. Matches(message.payload, live', published', failing)
      BY <2>1, <2>3, ClientPublishes DEF RouterInv
    <3>2. sent' = TRUE /\ message' = message /\ failing' = failing
      BY <2>3 DEF ClientSends
    <3>. QED BY <2>2, <3>1, <3>2 DEF RouterInv
  <2>4. CASE ServerSends \/ BusSends
    <3>1. sent' = TRUE /\ sender' = sender /\ sender # "client"
      BY <2>4 DEF ServerSends, BusSends
    <3>. QED BY <2>2, <3>1 DEF RouterInv
  <2>5. CASE Restart \/ Join \/ UNCHANGED vars
    <3>1. /\ message' = message /\ sender' = sender /\ clock' = clock /\ failing' = failing /\ sent' = sent
          /\ live' = live /\ published' = published
      BY <2>5 DEF Restart, Join, vars
    <3>. QED BY <2>1, <2>2, <3>1 DEF RouterInv
  <2>. QED BY <2>1, <2>3, <2>4, <2>5 DEF Next
<1>3. RouterInv => RouterMatches
  BY DEF RouterInv, RouterMatches, Matches, Addressed
<1>. QED BY <1>1, <1>2, <1>3, PTL DEF Spec
=============================================================================
