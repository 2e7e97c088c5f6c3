--------------------------- MODULE MessageHistory ---------------------------
(***************************************************************************)
(* history.py: the RAM history of persistent rooms.  Every public method   *)
(* runs under the history's own lock and is one action.  Per room there    *)
(* are a deque of records, an index from id to sequence number and the     *)
(* next sequence number; a room without records has none of the three,     *)
(* which is the same as three empty ones.                                  *)
(*                                                                         *)
(* A record carries the date at which the server received it.  The caller  *)
(* reads the clock, builds the event and records it later, without a lock, *)
(* so records arrive up to MaxDelay late and not in the order of dates.    *)
(* append() prunes by the date of its own record, a query by the clock.    *)
(*                                                                         *)
(* Dates are instants.  max_age is subtracted from what a clock on the     *)
(* wall shows in the configured zone (now - self.max_age on a zoned        *)
(* datetime), and that clock is moved forward by Shift at Spring and back  *)
(* at Autumn: in the week after, the cutoff is off by Shift.               *)
(***************************************************************************)
EXTENDS Integers, Sequences, FiniteSets

CONSTANTS
  Rooms, Ids,
  NoSeq,      \* no entry in the id index
  MaxAge,     \* max_age: what is older is pruned
  MaxTime,    \* bound on the clock
  MaxDelay,   \* how far a recording thread lags behind its clock reading
  MaxLoad,    \* bound on the records loaded for a room
  Spring,     \* the instant at which summer time begins
  Autumn,     \* the instant at which it ends
  Shift       \* by how much it moves the wall clock, 0 in a zone without

ASSUME BoundsAssumption ==
  MaxAge \in Nat /\ MaxTime \in Nat /\ MaxDelay \in Nat /\ MaxLoad \in Nat
ASSUME ZoneAssumption == Spring \in Int /\ Autumn \in Int /\ Shift \in Nat
ASSUME NoSeqAssumption == NoSeq \notin Nat

VARIABLES
  store,      \* store[r]: the deque, index and counter of room r
  clock,      \* the present instant
  kept,       \* history variable: the records accepted and not yet due to go
  epoch       \* history variable: flips with every replace() and clear()

vars == <<store, clock, kept, epoch>>

Dates == 0..MaxTime
Entry == [id : Ids, date : Dates, seq : Nat]
RoomStore == [messages : Seq(Entry), index : [Ids -> Nat \cup {NoSeq}], nextSeq : Nat]

Empty == [messages |-> <<>>, index |-> [i \in Ids |-> NoSeq], nextSeq |-> 0]

-----------------------------------------------------------------------------
(* Instants and the wall clock of the zone *)

(* What the wall clock shows at an instant.                                *)
WallClock(t) == IF Spring <= t /\ t < Autumn THEN t + Shift ELSE t

(* datetime.timestamp(): the instant of a reading.  The difference of a    *)
(* datetime and a timedelta has fold = 0, for which both a reading that    *)
(* occurs twice and one that is skipped have the offset before the change. *)
Timestamp(w) == IF Spring + Shift <= w /\ w < Autumn + Shift THEN w - Shift ELSE w

(* _prune_locked: self._timestamp(now - self.max_age) *)
Cutoff(now) == Timestamp(WallClock(now) - MaxAge)

-----------------------------------------------------------------------------
(* The helpers of the class, on one room *)

(* _append_locked: a known id is not entered again. *)
Known(st, id) == st.index[id] # NoSeq

(* Mutant: no check for a known id. *)
AppendedAgain(st, id, date) ==
  [messages |-> Append(st.messages, [id |-> id, date |-> date, seq |-> st.nextSeq]),
   index |-> [st.index EXCEPT ![id] = st.nextSeq],
   nextSeq |-> st.nextSeq + 1]

Appended(st, id, date) ==
  IF Known(st, id) THEN st
  ELSE [messages |-> Append(st.messages, [id |-> id, date |-> date, seq |-> st.nextSeq]),
        index |-> [st.index EXCEPT ![id] = st.nextSeq],
        nextSeq |-> st.nextSeq + 1]

(* Mutant: a record that is exactly max_age old is removed. *)
StaleInclusive(m, cutoff) ==
  CHOOSE k \in 0..Len(m) :
    /\ \A i \in 1..k : m[i].date <= cutoff
    /\ k < Len(m) => m[k + 1].date > cutoff

(* Mutant: one record is removed per call ("if" for "while"). *)
StaleOne(m, cutoff) ==
  IF Len(m) > 0 /\ m[1].date < cutoff THEN 1 ELSE 0

(* How many records the loop of _prune_locked removes: it stops at the     *)
(* first record that is not too old, whatever follows it.                  *)
Stale(m, cutoff) ==
  CHOOSE k \in 0..Len(m) :
    /\ \A i \in 1..k : m[i].date < cutoff
    /\ k < Len(m) => m[k + 1].date >= cutoff

(* Mutant: the index entries of removed records stay. *)
PrunedIndexKept(st, cutoff) ==
  LET m == st.messages
      k == Stale(m, cutoff)
  IN IF k = Len(m) THEN Empty
     ELSE [st EXCEPT !.messages = SubSeq(m, k + 1, Len(m))]

(* Mutant: the counter of an emptied room is reset to None. *)
PrunedNoCounter(st, cutoff) ==
  LET m == st.messages
      k == Stale(m, cutoff)
  IN IF k = Len(m) THEN [Empty EXCEPT !.nextSeq = NoSeq]
     ELSE [st EXCEPT
             !.messages = SubSeq(m, k + 1, Len(m)),
             !.index = [id \in Ids |->
                          IF \E i \in 1..k : m[i].id = id /\ m[i].seq = st.index[id]
                          THEN NoSeq ELSE st.index[id]]]

Pruned(st, cutoff) ==
  LET m == st.messages
      k == Stale(m, cutoff)
  IN IF k = Len(m) THEN Empty
     ELSE [st EXCEPT
             !.messages = SubSeq(m, k + 1, Len(m)),
             !.index = [id \in Ids |->
                          IF \E i \in 1..k : m[i].id = id /\ m[i].seq = st.index[id]
                          THEN NoSeq ELSE st.index[id]]]

(* Mutant: the named message is included. *)
SelectedInclusive(st, id) ==
  IF Known(st, id) THEN SelectSeq(st.messages, LAMBDA e : e.seq >= st.index[id])
  ELSE st.messages

(* [message for message in messages if message["_seq"] > seq] *)
NewerThan(m, n) ==
  LET newer[i \in 0..Len(m)] ==
        IF i = 0 THEN <<>>
        ELSE IF m[i].seq > n THEN Append(newer[i - 1], m[i])
        ELSE newer[i - 1]
  IN newer[Len(m)]

(* What messages_after selects once the room is pruned. *)
Selected(st, id) ==
  IF Known(st, id) THEN NewerThan(st.messages, st.index[id]) ELSE st.messages

-----------------------------------------------------------------------------
(* Operations *)

(* The time between a change of the wall clock and when both ends of the   *)
(* last MaxAge lie behind it again.                                        *)
AfterSpring(now) == Spring <= now /\ now < Spring + MaxAge
AfterAutumn(now) == Autumn <= now /\ now < Autumn + MaxAge + Shift

(* A record may go when it is older than MaxAge; after the change in       *)
(* spring, Shift earlier.  An append prunes by the past instant of its own *)
(* record, so an age that was reached once counts.                         *)
Due(date, now) ==
  \E t \in Dates : t <= now /\ date < t - MaxAge + (IF AfterSpring(t) THEN Shift ELSE 0)

Init ==
  /\ store = [r \in Rooms |-> Empty]
  /\ clock = 0
  /\ kept = {}
  /\ epoch = 0

(* append(record, now=record["receivedAt"]) of an event received at date.  *)
AppendRecord(r, id, date) ==
  /\ date >= clock - MaxDelay
  /\ store' = [q \in Rooms |->
                 Pruned(IF q = r THEN Appended(store[q], id, date) ELSE store[q], Cutoff(date))]
  /\ kept' = IF Known(store[r], id) THEN kept
             ELSE kept \cup {k \in {[room |-> r, id |-> id, date |-> date]} : ~Due(date, clock)}
  /\ UNCHANGED <<clock, epoch>>

(* messages_after, room_size: prune by the clock, then answer.             *)
Query ==
  /\ store' = [r \in Rooms |-> Pruned(store[r], Cutoff(clock))]
  /\ UNCHANGED <<clock, kept, epoch>>

Answer(r, id) == Selected(Pruned(store[r], Cutoff(clock)), id)

(* replace(records, now): the numbers start anew, in the order of dates    *)
(* (sorted() leaves records of equal date as the data store returned       *)
(* them); of several records with one id only the oldest is entered.       *)
Loads ==
  {m \in UNION {[1..n -> [id : Ids, date : Dates]] : n \in 0..MaxLoad} :
     \A i, j \in DOMAIN m : i < j => m[i].id # m[j].id /\ m[i].date <= m[j].date}

StoreOf(m) ==
  [messages |-> [i \in DOMAIN m |-> [id |-> m[i].id, date |-> m[i].date, seq |-> i - 1]],
   index |-> [id \in Ids |-> IF \E i \in DOMAIN m : m[i].id = id
                             THEN (CHOOSE i \in DOMAIN m : m[i].id = id) - 1
                             ELSE NoSeq],
   nextSeq |-> Len(m)]

Replace ==
  \E m \in [Rooms -> Loads] :
    /\ \A r \in Rooms : \A i \in DOMAIN m[r] : m[r][i].date <= clock
    /\ store' = [r \in Rooms |-> Pruned(StoreOf(m[r]), Cutoff(clock))]
    /\ kept' = {k \in [room : Rooms, id : Ids, date : Dates] :
                  /\ [id |-> k.id, date |-> k.date] \in {m[k.room][i] : i \in DOMAIN m[k.room]}
                  /\ ~Due(k.date, clock)}
    /\ epoch' = 1 - epoch
    /\ UNCHANGED clock

ClearHistory ==
  /\ store' = [r \in Rooms |-> Empty]
  /\ kept' = {}
  /\ epoch' = 1 - epoch
  /\ UNCHANGED clock

Tick ==
  /\ clock < MaxTime
  /\ clock' = clock + 1
  /\ kept' = {k \in kept : ~Due(k.date, clock')}
  /\ UNCHANGED <<store, epoch>>

Next ==
  \/ \E r \in Rooms, id \in Ids, date \in 0..clock : AppendRecord(r, id, date)
  \/ Query
  \/ Replace
  \/ ClearHistory
  \/ Tick

Spec == Init /\ [][Next]_vars

-----------------------------------------------------------------------------
(* Properties *)

(* Types of the three dictionaries (history.py:20-22) and the clock.       *)
TypeOK ==
  /\ store \in [Rooms -> RoomStore]
  /\ clock \in Dates
  /\ kept \subseteq [room : Rooms, id : Ids, date : Dates]
  /\ epoch \in {0, 1}

(* The index and the deque of a room agree through any mix of append,      *)
(* pruning and restart of the numbering when a room runs empty: numbers    *)
(* increase along the deque, the next one is larger, and an id is indexed  *)
(* exactly when its record is retained, with that record's number.  An id  *)
(* left behind would make its retry be dropped for ever (history.py:60);   *)
(* a number left behind would cut a client's answer (history.py:122).      *)
IndexMatches ==
  \A r \in Rooms :
    LET m == store[r].messages IN
    /\ \A i, j \in DOMAIN m : i < j => m[i].seq < m[j].seq
    /\ \A i \in DOMAIN m : /\ m[i].seq < store[r].nextSeq
                           /\ store[r].index[m[i].id] = m[i].seq
    /\ \A id \in Ids : Known(store[r], id) => \E i \in DOMAIN m : m[i].id = id

(* A record that was accepted is retained until it is older than max_age:  *)
(* no record is pruned on account of another record's date, of another     *)
(* room, or of the number restart.  After the change in spring max_age is  *)
(* Shift shorter, because the wall clock runs ahead of the time that has   *)
(* passed (history.py:74).                                                 *)
NothingLostEarly ==
  \A k \in kept : \E i \in DOMAIN store[k.room].messages :
    /\ store[k.room].messages[i].id = k.id
    /\ store[k.room].messages[i].date = k.date

(* README.md:140-142: the server never returns history older than max_age. *)
NeverOlder ==
  \A r \in Rooms, id \in Ids : \A i \in DOMAIN Answer(r, id) :
    Answer(r, id)[i].date >= clock - MaxAge

(* Removing from the old end only is enough as long as records lie in the  *)
(* deque in the order of their dates, as after a load: then no answer      *)
(* holds a record older than max_age, however long the queries waited.     *)
(* After the change in autumn max_age is Shift longer (history.py:74).     *)
InOrder(m) == \A i, j \in DOMAIN m : i < j => m[i].date <= m[j].date

NeverOlderInOrder ==
  \A r \in Rooms, id \in Ids :
    InOrder(store[r].messages) =>
      \A i \in DOMAIN Answer(r, id) :
        Answer(r, id)[i].date >= clock - MaxAge - (IF AfterAutumn(clock) THEN Shift ELSE 0)

(* The history implements HistoryLog, forgetting numbers and index.        *)
LogOf(m) == [i \in DOMAIN m |-> [id |-> m[i].id, date |-> m[i].date]]

H == INSTANCE HistoryLog WITH log <- [r \in Rooms |-> LogOf(store[r].messages)]

ImplementsLog == H!Spec

(* messages_after answers what HistoryLog promises: what follows the named *)
(* event in the room's log, although it only compares sequence numbers.    *)
AnswerIsRest ==
  \A r \in Rooms, id \in Ids :
    LogOf(Answer(r, id)) = H!After(LogOf(Pruned(store[r], Cutoff(clock)).messages), id)
=============================================================================
