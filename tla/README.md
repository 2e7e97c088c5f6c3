# A formal model of signaldeck-plugin-socketio

TLA+ specifications of the Socket.IO transport plugin in
`src/plugins/signaldeck_plugin_socketio/`, with the TLC runs that check them and
proofs checked by TLAPS. File names below are relative to that directory;
`src/README.md` is the plugin's own documentation.

## 1. The system

| component | state | operations | talks to |
|---|---|---|---|
| client registry (`registry.py`) | `_users` (sid, status, rooms per user id), `_sid_to_user_id` | `connect`, `disconnect`, `add_room`, `remove_room`, `clear`, queries; each under one lock | called by all handlers, the service, the routes and the UI |
| Socket.IO handlers (`events.py`) | none of their own; one thread per handler call | `handle_connect`, `handle_disconnect`, `handle_join_room`, `handle_leave_room`, `send_event`, `deliver_new_events` | registry, Socket.IO server, service |
| Socket.IO server (python-socketio, external) | sessions, room table | `disconnect`, `join_room`, `leave_room`, `emit`; calls the handlers | clients |
| message history (`history.py`) | per room a deque, an id index and the next number | `append`, `replace`, `clear`, `messages_after`, `room_size`; each under one lock | processor |
| service (`service.py`) | configuration, rooms, router, blob store, the bound recorder and history provider | `configure`, bind/unbind, `record_event`, `get_missed_events`, `send_server_event`, `disconnect_all_clients` | everything; one instance per process |
| processor (`processor.py`) | the history, count of scheduled saves, bus subscription | construction, bootstrap (`init_current_vals`), recording, history lookup, bus messages, UI action, `shutdown` | history, data store (external), service |
| incoming router (`incoming_routes.py`) | its routes, fixed | `publish` | message bus (external) |
| blob store (`blob_store.py`) | files: data and metadata | `create`, `open_for_read`, `delete` | file system |
| HTTP routes, command, plugin registration, display data | none | adapters | service, registry, blob store |

What makes it hard. The server runs with `async_mode="threading"`
(`plugin.py:35`): handlers of different clients, and of one client if it does
not wait for answers, run concurrently, and a handler holds no lock from one call to
the next. Registry and history are each internally atomic, so the questions are
about what lies between two calls:

* membership is kept twice, by the registry (who may send) and by the
  server (who receives), and changed by two calls;
* a newer session of a user evicts the older one from inside the newer one's
  connect handler, while the older one's own handlers run;
* an event is recorded and then emitted, a joining client enters the room and
  then reads the history: no event may slip through between the two;
* records expire, rooms run empty and restart their numbers, clients retry with
  the same id, recording threads overtake each other;
* shutdown, start-up and the loading of the history run while handlers run; an
  event is saved later, by another thread than the one that recorded it, or never;
* one event exists in five forms (live, in RAM, saved, reloaded, replayed), made by code
  that was written separately;
* a blob is two files without a lock.

Section 3 says for each component what makes it correct, section 6 for the parts that
are planned. `PROJECT.json` lists the hazards by line, with the properties that would catch them.

## 2. Modules

```
Presence  <--- refined by ---  ClientRegistry  <--- INSTANCE ---  RoomSessions
                                    ^                                  ^
                         ClientRegistryProofs                 RoomSessionsProofs
HistoryLog  <--- refined by ---  MessageHistory  <---  MessageHistoryProofs
EventDelivery  <---  EventDeliveryProofs      (the history is as HistoryLog promises it)
Persistence    <---  PersistenceProofs
BlobSpec    <--- refined by ---  BlobStore     <---  BlobStoreProofs
IncomingRouter  <--- EXTENDS ---  EventEnvelope  <---  EventEnvelopeProofs
SequenceFacts  (lemmas for MessageHistoryProofs, EventDeliveryProofs, EventEnvelopeProofs)
MC<module>     (constants and symmetry for TLC)
```

**ClientRegistry**: the two dictionaries, one action per method. `users[u]` is
the `ClientState` of a user, `NoClient` if the user never connected;
`sidToUser` is the index. All calls may come with stale sids; only `connect` gets a
sid that is not in use, because the server hands out fresh ones. That the
handlers respect this is checked in RoomSessions (`RegistrySpec`).

**Presence** is the abstract specification: a user has at most one session with
a set of rooms; a new session starts with none.

**RoomSessions** puts the handlers over the registry. A handler is a job of one
of `Threads`; one step is one call that touches shared state, so all
interleavings of calls are explored. `job[t].pc` names the next call:

| handler | steps |
|---|---|
| `handle_connect` | `ConnectBegin`, `Register`, (`Evict` ... `DiscForget`), `Accept` |
| `handle_disconnect` | `DiscClient`, `DiscRooms`, `DiscAnnounce` per room, `DiscUnregister`; begun by `Lose` or `Evict`, followed by the server's `DiscForget` |
| `handle_join_room` | `JoinBegin`, `JoinEnter`, `JoinAdd`, `JoinAnnounce` |
| `handle_leave_room` | `LeaveBegin`, `LeaveRemove`, `LeaveManager`, `LeaveAnnounce` |
| `disconnect_all_clients`, `registry.clear` | `ShutdownBegin`, `ShutdownNext` + `Evict` per session, `ShutdownClear` |

The server is external and modelled from its use: `conn[s]` is a session's
state (unused, connecting, live, closing, gone), `members[r]` its room table.
`server.disconnect` marks the session closing, calls the disconnect handler in
the same thread and then forgets the session; a session that is closing
starts no new handler, but handlers that already run go on. `shown[u]` records which rooms'
last announcement about user `u` was `room.joined`.

What clients, network and operator may do beyond the normal is named by the constant
`Allowed`: `pipelining` (requests issued before the previous one is answered),
`early_loss` (a connection lost inside its connect handler), `evict_error`
(`server.disconnect` raises), `shutdown`.

**MessageHistory**: `store[r]` has the deque, the id index and the next number of a
room; a room without entries in the three dictionaries is the same as one with
empty ones. `AppendRecord`, `Query`, `Replace` and `ClearHistory` are the methods, all
with the pruning of every room that they do; `Answer(r, id)` is what
`messages_after` returns; its loop over the numbers is the recursive function `NewerThan`. `Tick` is the clock. `kept` and `epoch` are history
variables. Dates are instants; `Cutoff` is what `now - self.max_age` (`history.py:74`) makes of a datetime
in a zone with summer time (`processor.py:416-420`): the days are subtracted from what the `WallClock` shows, and
`Timestamp` is the instant of the reading that results, also where that reading occurs twice or not at all. **HistoryLog** is the abstract specification: a log of events per
room, without numbers and without an index, from which only the old end is ever
removed.

**EventDelivery** follows the events of one persistent room:
`process_client_event` (`SendBegin`, `SendRecord`, `SendEmit`, `SendAck`) against
`handle_join_room` (`JoinBegin`, `JoinEnter`, `JoinLookup`, `JoinAnswer`), with
clients that come and go, resume with `lastEventID`, and retry. The server itself sends
too (`ServerBegin`: `send_server_event`, or `_send_event` for the bus and the UI): it
needs no membership, gets no acknowledgement, and gives up between history and
`emit` when the data store raises (`ServerRecordError`), where a client's event goes out
all the same. `Allowed` names `concurrent_sends`, `retry`, `no_recorder`, `history_error`,
`server` and `save_error`. A null `lastEventID` is looked up as the id `"None"` (`Key`, `history.py:24-26`);
`NamedNone` is the event that has it, if one does. The clients are not in the repository; they are modelled as careful as the protocol permits:
`lastEventID` is the last event received from another client while in sync.

**Persistence** follows events from `service.record_event` to the data store. A
recording is a job (`call[c]`): `RecordTest` and `RecordCall` are the two reads of
`_event_recorder`, `Append` the history, then `Save` directly or, with a running loop,
`Schedule` (the count), `Enqueue` (`call_soon_threadsafe`), `Save` and `Finally`. A
processor goes through the phases of its life: `Construct`, `BindProvider`, `Load` and `Replace`
(`init_current_vals`), `UnbindRecorder`, `UnbindProvider`, `WaitEnds` or `WaitTimesOut`, `Stop`.
Several processors share the one service, whose recorder and provider are the
newest's. External: the framework, which constructs, loads and shuts down one
processor at a time; the data store, which saves or raises; the loop, which starts and stops; the crash,
after which everything but the data store begins anew.

**BlobStore** has four files per blob (data, metadata, and the temporary one of each),
each present with a size or not. `create` is `CreateBegin`, `CreateOpen`, `Receive` per
chunk, `ReceiveEnd`, `WriteMeta`, `ReplaceData`, `ReplaceMeta`, `CreateAnswer`, and `CleanTempData`, `CleanTempMeta`, `CleanData`, `CleanMeta` in its
exception handler, whose unlinks may themselves raise (`CleanError`); `open_for_read` with its route is `ReadBegin`, one of `Load...`, `Check`, `Serve`;
`delete` is `DeleteBegin`, `Load...`, `UnlinkData`, `UnlinkMeta`. `Allowed` names what may
happen on top: `cut_off` (a job ends where it is; a process that dies is all of its
jobs cut off), `lost_answer`, `disk_error`, `read_error`. **BlobSpec** is the abstract specification:
a blob appears at once and whole, is dropped at once, never returns, and what a request
is answered was true of the store at that moment.

**EventEnvelope** takes one message through everything that is done to it: `CreateEvent` (the service)
or `BuildServerEvent` (bus, UI), `Normalized` into the RAM history, `PersistData` into the
data store, `Restart` and `Reload` out of it, `ToWire` to a client that joins later. A
message has all its fields, each a value from a set that the conversions tell
apart: a text is a word with or without blanks around it, a number or a time is named
for what `int()`, `fromtimestamp()` and `timestamp()` do with it; an `inexact` time, of the event or of its receipt (`clock`),
is one that `int(timestamp() * 1000)` makes the millisecond beside of, and a `twice_inexact` one becomes inexact by it. `ClientSends`, `ServerSends` and
`BusSends` are the whole handlers, with everything that validation rejects, routing, and
a save that fails. **IncomingRouter** has `publish` over texts that are sequences of characters, with
whitespace and with a character whose case folding is two characters; its loop over the routes is the recursive
function in `Publish`. `Prompts` is the definition it is checked against.

Operators named in a comment `Mutant:` are not part of the model. Each is a
plausible bug in the definition that follows it, and the property it breaks is
listed in `PROJECT.json`: it shows that the property can fail.

## 3. Runs

| run | checks | shows |
|---|---|---|
| `ClientRegistry` | `TypeOK`, `IndexAgrees`, `OfflineIsEmpty`, `QueriesAgree`, `ImplementsPresence` | the index and the clients agree after any calls; `connected_count`, `active_sids` and `clients_for_room` describe the same clients; the registry is one session per user |
| `SessionsSerial` | `TypeOK`, `MembershipAgrees`, `LiveIsRegistered`, `NoGhost`, `MembersAnnounced`, `RegistrySpec`, `EvictionCompletes` | for clients that wait for each answer: registry and server agree on every room once a session is quiet; a live session is its user's registered one; no dead session stays registered; members are announced; superseded sessions are dropped in the end |
| `SessionsPipelined` | `NoHiddenReceiver` | with everything in `Allowed`: no quiet registered session receives a room that the registry denies |
| `HistoryIndex` | `TypeOK`, `IndexMatches`, `NothingLostEarly`, `NeverOlderInOrder`, `AnswerIsRest`, `ImplementsLog` | numbers, index and deque agree through expiry, retries and restarts of the numbering; nothing is pruned before it is due, and in date order nothing later, around both changes of the clocks; an answer is what follows the named event in the log |
| `DeliverySerial` | `TypeOK`, `NoGap`, `LastIsHorizon` | with one send at a time, of a client or the server, and an event with the id `"None"`: a client in sync has every recorded event or is about to be emitted it, and its `lastEventID` hides none |
| `DeliveryConcurrent` | `FirstJoinComplete` | with two sends and a join at once, retries, and a recorder that may not be bound: a reader that never resumed misses no recorded event, and what is recorded is emitted, whatever became of the sender's session |
| `BlobStore` | `TypeOK`, `IssuedIsKept`, `DeletedIsGone`, `NoLitter`, `ImplementsBlobSpec` | no file exceeds the limit; an issued blob keeps both files until its deletion is asked for; an answered delete holds, whatever became of other deletes; a failed upload leaves nothing, or, if its clean-up fails too, no metadata; to its clients the two files are one store |
| `Persistence` | `TypeOK`, `NothingForgotten`, `StoredIsServed`, `DrainedIsSaved`, `NewestServes`, `SavedOnce`, `ShutdownDrains` | what is in a RAM history is saved, under way in the recording that put it there, or failed to be saved; what is saved is served; shutdown waits for exactly what was scheduled; a late shutdown does not disarm the successor; a retry is not saved twice; the wait ends without its timeout if the loop runs |
| `EventEnvelope` | `TypeOK`, `ReplayIsLive`, `RouterMatches`, `AcceptedIsRecorded` | no blank name passes anywhere; a later member is sent what the members were sent, but for a millisecond of its times; the bus gets the addressed prompts and no others; no event is seen live and refused by the recording |
| `HistoryDelayed` | `NeverOlder` (violated) | see Findings |
| `DeliveryOvertaken` | `NoGap` (violated) | see Findings |
| `HistoryIncomplete` | `HistoryIsComplete` (violated) | see Findings |

Bounds. Registry: three users, three sids and two rooms let two users swap sids
and a third stand by. Sessions: three sids for two users give one user two
sessions next to another user, or three sessions in a row; two threads give
every overlap of two handlers, including an eviction (which runs in the
connecting thread) against a handler of the evicted session. Rooms do not
interact in the handlers except in the announcements of one disconnect, so one
room is used. History: two rooms, two ids and `MaxAge = 1` make records expire,
rooms run empty and ids come back in one room because of an append in the other; `MaxDelay`
is large enough there for appends in any order of dates. The clocks go forward at 1 and back at 2, so that a
record can live through either change (`Shift` is as long as `MaxAge` there; the theorems are for any of both); the zone is left out of `HistoryDelayed` (`Shift = 0`), whose violation is
to be the order's alone. Delivery: two events give
one that a client has and one it can miss; the overtaking needs three clients, as neither
author is the reader; the server is an author of its own. `DeliveryConcurrent` has three threads, for two sends of different
events and a join at once. Its constraint `NobodyResumes` cuts off what follows a join with a `lastEventID`: the property is about
clients that never resumed, and a client that did acts on the rest of the system like one that did not, as a sender. Blobs: two requests race on one blob while
another blob exists; a limit of one chunk gives an empty, a full and an oversized body.
Persistence: two processors serve one after the other or, the older not yet
shut down, side by side; two recordings are two threads with the same event, a retry and its first
attempt, or the recordings of two lives of the process. With two events the safety properties
were checked once under symmetry (5.1 million states); nothing in the code relates two events before
the data store. Envelope: any two fields at a time are unusual, because a conversion reads at most one other
field as a default; texts of up to five characters hold a
prefix of two, white space on both sides and a prompt. Symmetry is used only in runs without liveness.

Fairness. `EvictionCompletes` assumes that every job which can take a
step eventually does (`WF_vars(Step(t))`): threads are scheduled, and no
handler waits for another one while holding a lock. `ShutdownDrains` assumes the same of
recordings and of what the framework has begun with a processor, and says in its own
premise that the loop stays up; the timeout is not fair, so the wait must end without it.
Nothing is assumed of what starts a job (clients, network, operator). The fair
specifications run without symmetry.

Deadlock is checked except in the two session runs: there the sids are
finite and never reused, so a behaviour ends when all are gone.

### What the properties exclude, and why

The runs were also made with more allowed; the exclusions below are behaviours
of the code, found by TLC:

* `MembershipAgrees` needs clients that wait for each answer. With pipelining,
  a join between another request's `registry.remove_room` and `leave_room` leaves
  a session that the registry lists as a member and the server does not: it may
  send, and receives nothing until it joins again. The other direction,
  `NoHiddenReceiver`, holds in all circumstances.
* `NoGhost` needs connections that are not lost inside `handle_connect`. If
  one is, its disconnect handler finds nothing to unregister, and
  `registry.connect` then registers a dead sid; the user counts as connected
  until a later connect replaces it.
* `LiveIsRegistered` needs no shutdown: a client that connects
  between the snapshot of `active_sids` and `registry.clear` stays connected
  and every request it makes is answered `unknown_client`. It also needs
  `server.disconnect` not to raise (`events.py:85` logs and goes on).
* `MembersAnnounced` is claimed for a user with one session. With an
  overlapping session, a late `room.left` of the old one follows `room.joined` of
  the new one.
* `NoGap` and `LastIsHorizon` except clients that were answered an empty list because the
  lookup failed (`events.py:213-224`); they cannot tell, and miss events. They
  also need a bound recorder: with `no_recorder` an event is emitted but is in no
  history, and a retry that is recorded later lies behind events sent after it.
* They, and `FirstJoinComplete`, also except a client whose first join finds an event with the id `"None"` in the
  history: `messages_after` looks up `str(None)` (`history.py:112-114`), and answers only what follows that event.
* `NoGap`, `FirstJoinComplete` and `LastIsHorizon` except `withheld`
  events: the server's own, whose save raised at once. They are in the history and emitted
  to nobody (`processor.py:279`), so those who join later get them and the members do not.
* `StoredIsServed` and `SavedOnce` except events recorded before the processor was
  loaded, in flight when it was constructed, or after the shutdown of the one that recorded
  them (`excused`).
* `NothingForgotten` does not say that an event which clients were given survives: one that saving or scheduling failed for
  is in the RAM history, which is why a retry is not saved either, and is gone with the process; and so are at a crash those
  whose save is still scheduled. The property says that there are no others.
* `DrainedIsSaved` excepts a shutdown that timed out, and callbacks of recordings that got hold of
  the recorder before it was unbound and scheduled after the wait (`late`).
* A recording that finds the recorder unbound between the two reads (`service.py:426`) ends
  with a `TypeError`. The event was never in a history, so no property speaks of it.
* `NoLitter` excepts uploads that were cut off or whose answer was lost: their files stay for ever. If an unlink
  of the exception handler raises, the ones behind it are not tried (`blob_store.py:130-133`), and temporary files or data stay,
  but never metadata.
  `DeletedIsGone` excepts deletes that could not open the metadata: any `OSError` is taken for
  "not there" (`blob_store.py:178`), and the answer says `false` with both files in place.
* `NothingLostEarly` and `NeverOlderInOrder` follow the clock of the zone: in the week after the clocks went forward a record may go an
  hour early, in the week after they went back it may be answered an hour longer.
* `ReplayIsLive` excepts a `createdAt` that is no year (`_coerce_datetime` puts the present) and display names
  with blanks around. Of `createdAt` and `receivedAt` it allows the replay to be one millisecond beside the live event, where
  `int(timestamp() * 1000)` (`processor.py:450`) truncates to it: about every fourth millisecond of 1987, of most of 2004
  and of the year from 19 January 2038 on, and a few of 1970, before and in the far future. `AcceptedIsRecorded` excepts a `createdAt` too large for `fromtimestamp`:
  its `OverflowError` is not caught by `_coerce_datetime`, the handler logs it, and the event is emitted but in no history.
* `RouterMatches` lets the router miss a prompt only in a text whose length folding changes. A configured prefix that
  contains a sharp s folds to a longer text, and `text[:len(prefix)]` is then too long to equal it:
  no message ever matches, although `src/README.md` calls the comparison case-insensitive.

Noticed while modelling, and checked by no run: a UI message without a room always
raises, because `_normalize_event` wants one, although `processor.py:287` speaks of
broadcasts; `POST /send` calls `service.send_server_message`, which does not exist
(`routes.py:52`); a number like `1e400`, which JSON makes infinite, raises an
`OverflowError` past the `except ValueError` of `process_client_event`, so the client gets no answer.

### Findings

1. `HistoryDelayed`. `src/README.md:140-142` says the server never returns
   history older than seven days. `_prune_locked` stops at the first record that
   is young enough (`history.py:80`), and records are appended in the order in which
   threads get to `append`, not in the order of their `receivedAt`. A record
   appended late stays behind a younger one, and is answered although it is too
   old, by as much as the threads were reordered. The run has no daylight saving time, so the order alone is the cause there.
   There is a second one: `now - self.max_age` (`history.py:74`) subtracts wall-clock days, so in the
   week after a change of the clocks "exactly seven days" (`src/README.md:140`) are 6 days and 23 hours, or 7 days and 1 hour.
   `NeverOlderInOrder` and `NothingLostEarly` show, in a zone with both changes, that these two are all.
2. `DeliveryOvertaken`. `src/README.md:146-147` says the server answers for
   missing events. `process_client_event` records and then emits (`events.py:476-491`)
   without a lock over both. Client A's event is recorded first, B's event is
   recorded and emitted; the reader, having received B's, loses its connection and A's event is
   emitted meanwhile. The reader resumes after B's event, which lies
   behind A's in the history: it never gets A's. `DeliverySerial`
   shows that one send at a time has no gap.
3. `HistoryIncomplete`. `src/README.md:137-138` says every new event is added to the RAM cache immediately,
   and 146-147 that the server answers from it. `init_current_vals` reads the data store and then
   *replaces* the history (`processor.py:508-522`), but the recorder is bound since the constructor: an event recorded and
   saved in between is gone from the RAM history and given to nobody until the next start.
   `StoredIsServed` shows that nothing else in the data store is missing from it.

## 4. Proofs

Every safety invariant, action property and refinement of the passing runs is a theorem; only the
two liveness properties are not (section 5). All proofs are for arbitrary sets of users, sids, rooms, threads,
clients, processors, events, blobs, messages, routes and characters, and for every `Allowed` unless the theorem says
otherwise. The assumptions on the constants are evaluated by TLC in every run:

* null values are not among the values they stand beside (`NullValues`, `NullsAreFresh`, `NoRoomFresh`, `NullsFresh`;
  the server as an author is no client), the event named "None" is an event or none (`NamedNoneKnown`), and `Allowed` holds known names;
* there are finitely many recordings at a time (`CallsFinite`), the size limit is positive (`MaxSizePositive`,
  `blob_store.py:63`), the bounds of the history are numbers (`BoundsAssumption`), the
  changes of the clocks are instants, in any order, and the shift is not negative (`ZoneAssumption`);
* the words which the code itself uses are words (`WordsKnown`), messages have their fields (`MessagesTyped`),
  configured rooms have stripped names (`RoomsNamed`, `service.py:95`);
* routes are what the router's constructor lets pass (`RoutesConfigured`, `incoming_routes.py:13-30`), texts are
  of known characters (`TextsSpelled`), no character folds to nothing, and white space folds to itself
  (`FoldsToSomething`, `SpacesStay`, properties of `str.casefold()`).

`ClientRegistryProofs`:

* `TypeCorrect`, `IndexCorrect`, `OfflineCorrect`: `TypeOK`, `IndexAgrees` and
  `OfflineIsEmpty` are invariants. Their conjunction `RegInv` is inductive; one lemma
  per method. `IndexAgrees` carries the argument: `connect` may drop the old
  sid because no other sid resolves to the user, and `disconnect` of a replaced sid finds nothing.
* `RegistryImplementsPresence`: each method is a step of `Presence` or no step, under
  the mapping that forgets status, index and offline users.
* `QueriesCorrect`: `QueriesAgree` is an invariant. `connected_count` counts a set of users and `active_sids` is a set of
  sids, so it needs a bijection between the two (`IndexAgrees`) and that only finitely many users were ever
  seen (`SeenFinite`), because `Users` itself may be infinite.
* The lemmas `...Denies` and `...Admits` say what each method does to the answers for a sid: only
  connecting a sid and leaving a room can newly deny a sid a room.

`RoomSessionsProofs` uses these lemmas through INSTANCE:

* `HandlersUseRegistry`: every step of the handlers is a step of the registry's specification.
  The point is `Register`: the sid must not be registered.
* `NoReceiverIsHidden`: `NoHiddenReceiver` is an invariant. It speaks of quiet
  sessions only, and is not inductive. The invariant `Inv` adds `Explained`: a session that
  receives a room it is denied is in a join that will add the room (`join_add`) or
  a leave that will leave the server's room (`leave_manager`). This is why the order of the two calls
  in each handler matters: with either pair swapped, a concurrent join and leave of
  one session could end with the server in the room and the registry not.
  `Fresh` and `Handshake` say that nothing is done in the name
  of a sid before `registry.connect` was called for it, so a new registration finds
  no room entered; `AllEquipped` gives each handler its arguments.
  `CalmStep` covers all steps that only take rooms and registrations away.
* `SessionTypes`: `TypeOK` is an invariant.

The other four properties of the sessions hold in part of the circumstances only. Each theorem excludes what its property does
not survive, and nothing else; TLC finds a violation of each as soon as only that is allowed:

| theorem | property | excludes from `Allowed` | beside `Inv`, its invariant says |
|---|---|---|---|
| `ViewsAgree` | `MembershipAgrees` | `pipelining` | `SerialInv`: one handler per session (`OneRequest`), who may send receives in *every* state (`RoomsReceived`), a join between its two calls is in the server's room or unregistered (`Entered`), a leave between its two is not overtaken by a join (`Left`), a session about to be dropped is in no room (`Dropped`) |
| `PeersKnowMembers` | `MembersAnnounced` | `pipelining` | `Announced`: the peers know the room, or the join that entered it is about to tell them |
| `NoGhostRemains` | `NoGhost` | `early_loss` | `LossInv`: nobody disconnects a session before `registry.connect` (`Undisturbed`), and what the server is about to drop is unregistered (`Unregistered`) |
| `SupersededIsClosed` | `LiveIsRegistered` | `evict_error`, `shutdown` | `EvictInv`: an open session is registered, is about to be, or is about to be evicted by its successor (`Answered`) |

These invariants do not look at the actions. `Moves(t)` says once what a step of a thread can do to each part of the
state and where its handler must be for it (a room is entered in the registry only at `join_add`, a session becomes live only at `accept`, ...);
`StepMoves` proves that every action is such a move, and each invariant is then preserved by any move.

`MessageHistoryProofs`:

* `HistoryTypes`, `IndexFollowsDeque`, `RetainedUntilOld`: `Inv` says of each room that it is `Sound` (`IndexMatches`
  of that room), and of `kept` that it is not `Due`. `CutoffOfWeek` bounds the cutoff by the age and the shift, whatever the zone. The lemma `StaleIsPrefix` is about the pruning loop: it removes a prefix
  of records that are too old, and the record it stops at is not. `AppendedSound`, `PrunedSound` and `LoadedSound`
  are about the three ways a deque changes.
* `HistoryImplementsLog`: every method is a step of `HistoryLog` under the mapping that forgets numbers and index.
* `AnswersTheRest`: because numbers increase along the deque (`IndexMatches`), what has a larger number than the
  named event is what lies behind it. `NewerIsRest` proves by induction along the deque that the loop of `messages_after`
  collects exactly that.
* `NothingOldInOrder`: in a deque in date order, nothing behind the record at which pruning stops lies before the cutoff.

`EventDeliveryProofs`: none of the properties is inductive, because what a client has after its join depends on what the join's handler
read and when. `Inv` therefore says what each answer on its way is worth:

* `DeliveryTypes`, `FirstJoinLeavesNoGap` in all circumstances, also with an event named "None". `Pending`: an answer that is on its way to a first-time
  reader holds every recorded event which is not accounted for otherwise. Recording an event after the lookup keeps this
  because the handler that records it emits afterwards, to a room which the client entered before the lookup.
* `ResumeLeavesNoGap` (`NoGap`) and `LastEventHidesNothing` (`LastIsHorizon`) under `Orderly`: neither `concurrent_sends` nor
  `no_recorder` is allowed. `OrderlyInv` adds `LastHorizon`: up to a client's last event nothing is recorded that it does not have, and
  `JoinHorizon`, `PendingHorizon`, which say the same of the `lastEventID` a join was called with and of an
  answer on its way, whose elements the client handles one after the other. `DeliveryOvertaken` shows that the first exclusion is needed.

`BlobStoreProofs`: all five properties of the run (`NothingOversized`, `IssuedBlobIsKept`, `DeletedBlobIsGone`,
`FailedUploadLeavesNothing`, `StoreImplementsBlobSpec`). The invariant says for each blob which files exist at each step
of its creation (`Stage`) by the one job that creates it (`Alone`, because an id is drawn once), and that an issued blob's
metadata names the size of its data and neither goes before a delete is past its token check (`Ordered`). The refinement follows: the second rename is `Put`, the first
unlink of several racing deletes is `Drop`, and each answer is checked against the abstract content at its step.

`PersistenceProofs`: the six safety properties. Their inductive invariant `IInv` adds to them the types of a
recording at each step, `PendingCounts` (the count equals the number of recordings that are scheduled: a
cardinality, hence `CallsFinite`), `Roles` (who holds recorder and provider in which phase), and `Served`
(what the newest processor's history covers while it is loading). `DrainedIsSaved` needs `PendingCounts`: a wait that
ends finds no scheduled recording, and one that comes later is `late`.

`EventEnvelopeProofs`: `EventsAreWellFormed`, `LaterIsTheSame` and `NothingAcceptedIsRefused`, for every message with the given kinds
of values in every field at once (the run has two unusual fields). Lemmas first: what the service creates
is `Made` (all names are words); what is `Made` can be normalized; normalizing changes only the excepted
fields and the two times by at most a millisecond; the data store is an inverse pair (`ReloadIsInverse`). The invariant then says that
the RAM record and the row are each a `Made` record whose wire form agrees with what was sent live.

`OnlyPromptsArePublished` (`RouterMatches`), in the same module, compares the router's loop, with its slices, folded prefixes and early end, to
`Prompts`, which says without slices what an addressed prompt is. `Trimmed`, `SliceOfRest` and `RemainderIsRest` say
what `strip()` and slices leave; `FoldLength` that folding makes no text shorter. `PassesOnPrompts`: what is passed on is a prompt of that route, for any folding.
`PromptsAreAddressed`: a prompt is passed on if folding keeps the text's length. `PublishedCalls` is the induction over the
routes, with `RouteSkipped` and `RouteCalled` as its two cases: the calls so far belong to an increasing sequence of routes, and a
route that was passed over lies behind a listener that raised.

`SequenceFacts` has what these inductions need: the library's induction theorems take a predicate as a parameter, which no installed
prover can instantiate, so `LeastNumber`, `GreatestNumber`, `CountingUp` and `LoopValues` state it of sets and functions.

## 5. Not modelled, and only model-checked

* Liveness (`EvictionCompletes`, `ShutdownDrains`) is checked by TLC only;
  TLAPS does not do fairness. EventDelivery has none: that a handler which recorded an event goes on to emit it is
  up to the threads, and that it never gives up in between is what `FirstJoinComplete` says as an invariant. Everything else that the passing runs check is proved.
* Persistence lets callbacks of the loop overlap and does not order them; it leaves out a `shutdown` that
  is called on the loop's own thread (whose wait would always time out), and assumes that the
  persistent rooms do not change between processors.
* BlobStore takes a completed rename or unlink for durable: a power loss that undoes them (the directory is
  not synced) is left out, as are ranges of a read.
* EventEnvelope has one event; order and retries are the subject of EventDelivery. Left out are
  what a data store does to a value beside giving it back, and which times are inexact: any may be.
* Messages between peers (`request_new_events`, `deliver_new_events`, `events.py:226-279`)
  are relayed without state and without a promise of the server.
* Display data, logging, templates, plugin registration and the HTTP routes beside the blobs are left
  out: they keep no state and take part in no interaction.
* The components marked `not_modelled` or `partly` in `PROJECT.json` are the
  subject of the plan.

## 6. Plan

In this order:

1. Proofs: what the abstract specifications `Presence`, `HistoryLog` and `BlobSpec` promise on their own,
   and the invariants behind the liveness properties (which job still has to move, and why it can).
2. `ServiceConfig`: `configure` against concurrent readers (rooms, router, blob store
   with its signature), what a rejected configuration leaves of the old one, and the bus subscription
   that a failed constructor leaves. Property: a reader never sees rooms of one configuration and
   routes of another beyond what the lock admits.
3. A join across a restart: EventDelivery over Persistence, with the history sorted by date after the
   load, to see which `lastEventID`s hide an event recorded late.
4. The peer-to-peer catch-up of non-persistent rooms, with two peers that answer one request.
5. Messages of the bus to several rooms, where a failing room ends the loop.
