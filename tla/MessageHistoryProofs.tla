------------------------- MODULE MessageHistoryProofs -------------------------
(***************************************************************************)
(* Proofs about the message history, for any rooms, ids, ages and bounds.  *)
(***************************************************************************)
EXTENDS MessageHistory, SequenceFacts

LEMMA EntryTypes ==
  ASSUME NEW m \in Seq(Entry)
  PROVE  /\ Len(m) \in Nat /\ DOMAIN m = 1..Len(m)
         /\ \A i \in 1..Len(m) :
              m[i] \in Entry /\ m[i].id \in Ids /\ m[i].date \in Dates /\ m[i].date \in Int
                            /\ m[i].seq \in Nat
<1>1. \A i \in 1..Len(m) : m[i] \in Entry
  BY ElementOfSeq
<1>2. \A e \in Entry : e.id \in Ids /\ e.date \in Dates /\ e.seq \in Nat
  BY DEF Entry
<1>3. Dates \subseteq Int
  BY BoundsAssumption DEF Dates
<1>. QED BY <1>1, <1>2, <1>3, LenProperties

(* The pruning loop removes exactly a prefix of records that are too old,  *)
(* and the one it stops at is not.                                         *)
LEMMA StaleIsPrefix ==
  ASSUME NEW m \in Seq(Entry), NEW cutoff \in Int
  PROVE  /\ Stale(m, cutoff) \in 0..Len(m)
         /\ \A i \in 1..Stale(m, cutoff) : m[i].date < cutoff
         /\ Stale(m, cutoff) < Len(m) => m[Stale(m, cutoff) + 1].date >= cutoff
<1> DEFINE Stops(k) == /\ \A i \in 1..k : m[i].date < cutoff
                       /\ k < Len(m) => m[k + 1].date >= cutoff
           T == {i \in 1..Len(m) : m[i].date >= cutoff}
<1>1. Len(m) \in Nat /\ \A i \in 1..Len(m) : m[i].date \in Int
  BY EntryTypes
<1>2. \E k \in 0..Len(m) : Stops(k)
  <2>1. CASE T = {}
    <3>1. Stops(Len(m))
      BY <1>1, <2>1
    <3>. QED BY <1>1, <3>1
  <2>2. CASE T # {}
    <3> HIDE DEF T
    <3>0. T \in SUBSET Nat
      BY <1>1 DEF T
    <3>1. PICK n \in T : \A k \in T : n <= k
      BY <2>2, <3>0, LeastNumber
    <3> USE DEF T
    <3>2. n - 1 \in 0..Len(m) /\ Stops(n - 1)
      BY <1>1, <3>1
    <3>. QED BY <3>2
  <2>. QED BY <2>1, <2>2
<1>3. Stale(m, cutoff) = CHOOSE k \in 0..Len(m) : Stops(k)
  BY DEF Stale
<1> HIDE DEF Stops
<1>4. Stale(m, cutoff) \in 0..Len(m) /\ Stops(Stale(m, cutoff))
  BY <1>2, <1>3
<1>. QED BY <1>4 DEF Stops

-----------------------------------------------------------------------------
(* One room: what IndexMatches says of it, and what the helpers keep       *)

Numbered(st) ==
  LET m == st.messages IN
  /\ \A i, j \in DOMAIN m : i < j => m[i].seq < m[j].seq
  /\ \A i \in DOMAIN m : m[i].seq < st.nextSeq /\ st.index[m[i].id] = m[i].seq
  /\ \A id \in Ids : Known(st, id) => \E i \in DOMAIN m : m[i].id = id

Sound(st) == st \in RoomStore /\ Numbered(st)

LEMMA RoomTypes ==
  ASSUME NEW st \in RoomStore
  PROVE  /\ st.messages \in Seq(Entry)
         /\ st.index \in [Ids -> Nat \cup {NoSeq}]
         /\ st.nextSeq \in Nat
BY DEF RoomStore

LEMMA EmptySound == Sound(Empty) /\ Empty.messages = <<>>
<1>1. Empty.messages = <<>> /\ Empty.index = [i \in Ids |-> NoSeq] /\ Empty.nextSeq = 0
  BY DEF Empty
<1>2. Empty \in RoomStore
  <2>1. <<>> \in Seq(Entry)
    BY EmptySeq
  <2>. QED BY <2>1 DEF Empty, RoomStore
<1>3. Len(<<>>) = 0 /\ DOMAIN <<>> = {}
  OBVIOUS
<1>. QED BY <1>1, <1>2, <1>3 DEF Sound, Numbered, Known

LEMMA AppendedSound ==
  ASSUME NEW st, Sound(st), NEW id \in Ids, NEW date \in Dates
  PROVE  /\ Sound(Appended(st, id, date))
         /\ ~Known(st, id) =>
              Appended(st, id, date).messages =
                Append(st.messages, [id |-> id, date |-> date, seq |-> st.nextSeq])
<1> DEFINE m == st.messages
           e == [id |-> id, date |-> date, seq |-> st.nextSeq]
           n == [messages |-> Append(m, e),
                 index |-> [st.index EXCEPT ![id] = st.nextSeq],
                 nextSeq |-> st.nextSeq + 1]
<1>1. CASE Known(st, id)
  BY <1>1 DEF Appended
<1>2. CASE ~Known(st, id)
  <2>1. Appended(st, id, date) = n
    BY <1>2 DEF Appended
  <2>2. /\ m \in Seq(Entry) /\ st.nextSeq \in Nat
        /\ st.index \in [Ids -> Nat \cup {NoSeq}]
    BY RoomTypes DEF Sound
  <2>3. e \in Entry /\ e.id = id /\ e.seq = st.nextSeq
    BY <2>2 DEF Entry
  <2> HIDE DEF e
  <2>4. /\ Append(m, e) \in Seq(Entry)
        /\ Len(Append(m, e)) = Len(m) + 1
        /\ \A i \in 1..Len(m) : Append(m, e)[i] = m[i]
        /\ Append(m, e)[Len(m) + 1] = e
    BY <2>2, <2>3, AppendProperties
  <2>5. n.messages = Append(m, e) /\ n.nextSeq = st.nextSeq + 1
        /\ n.index = [st.index EXCEPT ![id] = st.nextSeq]
    OBVIOUS
  <2>6. n \in RoomStore
    BY <2>2, <2>4 DEF RoomStore
  <2> HIDE DEF n, m
  <2>7. Numbered(n)
    <3>1. /\ Len(m) \in Nat /\ DOMAIN m = 1..Len(m)
          /\ \A i \in 1..Len(m) : m[i].id \in Ids /\ m[i].seq \in Nat
      BY <2>2, EntryTypes
    <3>2. DOMAIN n.messages = 1..Len(m) + 1
      BY <2>4, <2>5, LenProperties
    <3>3. \A i \in 1..Len(m) : m[i].seq < st.nextSeq /\ st.index[m[i].id] = m[i].seq
      BY <3>1 DEF Sound, Numbered, m
    <3>4. \A i \in 1..Len(m) : m[i].id # id
      BY <1>2, <3>1, <3>3, NoSeqAssumption DEF Known
    <3>5. ASSUME NEW i \in 1..Len(m) + 1, NEW j \in 1..Len(m) + 1, i < j
          PROVE  n.messages[i].seq < n.messages[j].seq
      <4>1. i \in 1..Len(m) /\ n.messages[i] = m[i]
        BY <2>4, <2>5, <3>1, <3>5
      <4>2. CASE j = Len(m) + 1
        BY <2>3, <2>4, <2>5, <3>3, <4>1, <4>2
      <4>3. CASE j # Len(m) + 1
        <5>1. j \in 1..Len(m) /\ n.messages[j] = m[j]
          BY <2>4, <2>5, <3>1, <4>3
        <5>. QED BY <3>1, <3>5, <4>1, <5>1 DEF Sound, Numbered, m
      <4>. QED BY <4>2, <4>3
    <3>6. ASSUME NEW i \in 1..Len(m) + 1
          PROVE  n.messages[i].seq < n.nextSeq /\ n.index[n.messages[i].id] = n.messages[i].seq
      <4>1. CASE i = Len(m) + 1
        BY <2>2, <2>3, <2>4, <2>5, <4>1
      <4>2. CASE i # Len(m) + 1
        <5>1. i \in 1..Len(m) /\ n.messages[i] = m[i]
          BY <2>4, <2>5, <3>1, <4>2
        <5>. QED BY <2>2, <2>5, <3>1, <3>3, <3>4, <5>1
      <4>. QED BY <4>1, <4>2
    <3>7. ASSUME NEW i \in Ids, Known(n, i)
          PROVE  \E j \in 1..Len(m) + 1 : n.messages[j].id = i
      <4>1. CASE i = id
        BY <2>3, <2>4, <2>5, <3>1, <4>1
      <4>2. CASE i # id
        <5>1. Known(st, i)
          BY <2>2, <2>5, <3>7, <4>2 DEF Known
        <5>2. PICK j \in 1..Len(m) : m[j].id = i
          BY <3>1, <5>1 DEF Sound, Numbered, m
        <5>3. j \in 1..Len(m) + 1 /\ n.messages[j] = m[j]
          BY <2>4, <2>5, <3>1
        <5>. QED BY <5>2, <5>3
      <4>. QED BY <4>1, <4>2
    <3>. QED BY <3>2, <3>5, <3>6, <3>7 DEF Numbered
  <2>. QED BY <2>1, <2>5, <2>6, <2>7 DEF Sound, m, e
<1>. QED BY <1>1, <1>2

(* Pruning takes a prefix of records that are too old, and the entries of  *)
(* exactly these records from the index.                                   *)
LEMMA PrunedSound ==
  ASSUME NEW st, Sound(st), NEW cutoff \in Int
  PROVE  /\ Sound(Pruned(st, cutoff))
         /\ Pruned(st, cutoff).messages =
              SubSeq(st.messages, Stale(st.messages, cutoff) + 1, Len(st.messages))
<1> DEFINE m == st.messages
           k == Stale(m, cutoff)
           s == SubSeq(m, k + 1, Len(m))
           x == [id \in Ids |-> IF \E i \in 1..k : m[i].id = id /\ m[i].seq = st.index[id]
                                THEN NoSeq ELSE st.index[id]]
           n == [st EXCEPT !.messages = s, !.index = x]
<1>1. /\ m \in Seq(Entry) /\ st.nextSeq \in Nat
      /\ st.index \in [Ids -> Nat \cup {NoSeq}]
  BY RoomTypes DEF Sound
<1>2. /\ Len(m) \in Nat /\ DOMAIN m = 1..Len(m)
      /\ \A i \in 1..Len(m) : m[i] \in Entry /\ m[i].id \in Ids /\ m[i].seq \in Nat
  BY <1>1, EntryTypes
<1>3. k \in 0..Len(m)
  BY <1>1, StaleIsPrefix
<1> HIDE DEF k
<1>4. CASE k = Len(m)
  <2>1. Pruned(st, cutoff) = Empty
    BY <1>4 DEF Pruned, k
  <2>2. s = <<>>
    BY <1>2, <1>4, SubSeqEmpty
  <2>. QED BY <2>1, <2>2, EmptySound DEF k
<1>5. CASE k < Len(m)
  <2>1. Pruned(st, cutoff) = n
    <3>1. k # Len(m)
      BY <1>2, <1>5
    <3>. QED BY <3>1 DEF Pruned, k
  <2> HIDE DEF m
  <2>2. /\ s \in Seq(Entry) /\ Len(s) = Len(m) - k
        /\ \A i \in 1..Len(m) - k : s[i] = m[i + k]
    BY <1>1, <1>3, SuffixElements DEF m
  <2>3. DOMAIN s = 1..Len(m) - k
    BY <2>2, LenProperties
  <2> HIDE DEF s
  <2>4. x \in [Ids -> Nat \cup {NoSeq}]
    BY <1>1
  <2>5. \A id \in Ids : x[id] = IF \E i \in 1..k : m[i].id = id /\ m[i].seq = st.index[id]
                                THEN NoSeq ELSE st.index[id]
    OBVIOUS
  <2> HIDE DEF x
  <2>6. /\ n \in RoomStore
        /\ n.messages = s /\ n.index = x /\ n.nextSeq = st.nextSeq
    BY <1>1, <2>2, <2>4 DEF RoomStore, Sound
  <2> HIDE DEF n
  <2>7. /\ \A i, j \in 1..Len(m) : i < j => m[i].seq < m[j].seq
        /\ \A i \in 1..Len(m) : m[i].seq < st.nextSeq /\ st.index[m[i].id] = m[i].seq
        /\ \A id \in Ids : Known(st, id) => \E i \in 1..Len(m) : m[i].id = id
    BY <1>2 DEF Sound, Numbered, m
  <2>8. \A i \in 1..Len(m) - k : i + k \in 1..Len(m) /\ i + k > k /\ s[i] = m[i + k]
    BY <1>2, <1>3, <2>2
  <2>9. ASSUME NEW i \in 1..Len(m) - k
        PROVE  x[s[i].id] = s[i].seq
    <3>1. \A j \in 1..k : m[j].seq # s[i].seq
      BY <1>2, <1>3, <2>7, <2>8
    <3>. QED BY <1>2, <2>5, <2>7, <2>8, <3>1
  <2>10. ASSUME NEW id \in Ids, x[id] # NoSeq
         PROVE  \E i \in 1..Len(m) - k : s[i].id = id
    <3>1. x[id] = st.index[id] /\ ~\E i \in 1..k : m[i].id = id /\ m[i].seq = st.index[id]
      BY <2>5, <2>10
    <3>2. PICK i \in 1..Len(m) : m[i].id = id
      BY <2>7, <2>10, <3>1 DEF Known
    <3>3. i > k
      BY <1>3, <2>7, <3>1, <3>2
    <3>4. i - k \in 1..Len(m) - k /\ (i - k) + k = i
      BY <1>2, <1>3, <3>3
    <3>5. s[i - k] = m[i]
      BY <2>8, <3>4
    <3>. QED BY <3>2, <3>4, <3>5
  <2>11. \A i, j \in 1..Len(m) - k : i < j => s[i].seq < s[j].seq
    BY <1>3, <2>7, <2>8
  <2>12. \A i \in 1..Len(m) - k : s[i].seq < st.nextSeq
    BY <2>7, <2>8
  <2>13. Numbered(n)
    BY <2>3, <2>6, <2>9, <2>10, <2>11, <2>12 DEF Numbered, Known
  <2>. QED BY <2>1, <2>6, <2>13 DEF Sound, s, m, k
<1>6. k < Len(m) \/ k = Len(m)
  BY <1>2, <1>3
<1>. QED BY <1>4, <1>5, <1>6

(* A loaded room is numbered from 0, in the order of the load.             *)
LEMMA LoadTypes ==
  ASSUME NEW m \in Loads
  PROVE  /\ Len(m) \in Nat /\ DOMAIN m = 1..Len(m)
         /\ \A i \in 1..Len(m) : m[i] \in [id : Ids, date : Dates]
         /\ \A i, j \in 1..Len(m) : i < j => m[i].id # m[j].id /\ m[i].date <= m[j].date
         /\ \A i, j \in 1..Len(m) : m[i].id = m[j].id => i = j
<1>1. PICK n \in 0..MaxLoad : m \in [1..n -> [id : Ids, date : Dates]]
  BY DEF Loads
<1>2. n \in Nat
  BY BoundsAssumption
<1> DEFINE R == [id : Ids, date : Dates]
<1>3. m \in Seq(R)
  <2>1. m \in [1..n -> R]
    BY <1>1
  <2> HIDE DEF R
  <2>2. Seq(R) = UNION {[1..k -> R] : k \in Nat}
    BY SeqDef
  <2>. QED BY <1>2, <2>1, <2>2
<1>4. Len(m) \in Nat /\ DOMAIN m = 1..Len(m)
  BY <1>3, LenProperties
<1>5. \A i, j \in 1..Len(m) : i < j => m[i].id # m[j].id /\ m[i].date <= m[j].date
  BY <1>4 DEF Loads
<1>6. \A i \in 1..Len(m) : m[i] \in [id : Ids, date : Dates]
  BY <1>1, <1>4
<1>7. ASSUME NEW i \in 1..Len(m), NEW j \in 1..Len(m), m[i].id = m[j].id
      PROVE  i = j
  <2>1. ~(i < j) /\ ~(j < i)
    BY <1>5, <1>7
  <2>. QED BY <1>4, <2>1
<1>. QED BY <1>4, <1>5, <1>6, <1>7

LEMMA LoadedSound ==
  ASSUME NEW m \in Loads
  PROVE  /\ Sound(StoreOf(m))
         /\ Len(StoreOf(m).messages) = Len(m)
         /\ \A i \in 1..Len(m) : /\ StoreOf(m).messages[i].id = m[i].id
                                 /\ StoreOf(m).messages[i].date = m[i].date
<1> DEFINE s == [i \in DOMAIN m |-> [id |-> m[i].id, date |-> m[i].date, seq |-> i - 1]]
           At(id) == CHOOSE i \in DOMAIN m : m[i].id = id
           x == [id \in Ids |-> IF \E i \in DOMAIN m : m[i].id = id THEN At(id) - 1 ELSE NoSeq]
           st == StoreOf(m)
<1>1. /\ Len(m) \in Nat /\ DOMAIN m = 1..Len(m)
      /\ \A i \in 1..Len(m) : m[i] \in [id : Ids, date : Dates]
      /\ \A i, j \in 1..Len(m) : m[i].id = m[j].id => i = j
  BY LoadTypes
<1>2. \A i \in 1..Len(m) : [id |-> m[i].id, date |-> m[i].date, seq |-> i - 1] \in Entry
  BY <1>1 DEF Entry
<1>3. /\ DOMAIN s = 1..Len(m)
      /\ \A i \in 1..Len(m) : s[i] \in Entry
      /\ \A i \in 1..Len(m) : s[i].id = m[i].id /\ s[i].date = m[i].date /\ s[i].seq = i - 1
  BY <1>1, <1>2
<1> HIDE DEF s
<1>4. s \in Seq(Entry) /\ Len(s) = Len(m)
  <2>1. s \in [1..Len(m) -> Entry]
    BY <1>1, <1>3 DEF s
  <2>2. s \in Seq(Entry)
    BY <1>1, <2>1, SeqDef
  <2>. QED BY <1>1, <1>3, <2>2, LenProperties
<1>5. \A i \in 1..Len(m) : At(m[i].id) = i
  BY <1>1
<1> HIDE DEF At
<1>6. \A id \in Ids : x[id] = IF \E i \in DOMAIN m : m[i].id = id THEN At(id) - 1 ELSE NoSeq
  OBVIOUS
<1>7. \A i \in 1..Len(m) : x[m[i].id] = i - 1
  BY <1>1, <1>5, <1>6
<1>8. \A id \in Ids : x[id] # NoSeq => \E i \in 1..Len(m) : m[i].id = id
  BY <1>1, <1>6
<1>9. x \in [Ids -> Nat \cup {NoSeq}]
  BY <1>1, <1>5
<1>10. st.messages = s /\ st.index = x /\ st.nextSeq = Len(m)
  BY DEF StoreOf, s, At
<1>11. st = [messages |-> s, index |-> x, nextSeq |-> Len(m)]
  BY DEF StoreOf, s, At
<1> HIDE DEF x, st
<1>12. st \in RoomStore
  BY <1>1, <1>4, <1>9, <1>11 DEF RoomStore
<1>13. Numbered(st)
  BY <1>1, <1>3, <1>7, <1>8, <1>10 DEF Numbered, Known
<1>. QED BY <1>3, <1>4, <1>10, <1>12, <1>13 DEF Sound, st

-----------------------------------------------------------------------------
(* The invariant: besides the numbering of every room, the records that    *)
(* were accepted and are not too old by the clock are in their rooms.      *)

KeptIsYoung == \A k \in kept : ~Due(k.date, clock)

Types ==
  /\ store \in [Rooms -> RoomStore]
  /\ clock \in Dates
  /\ kept \subseteq [room : Rooms, id : Ids, date : Dates]
  /\ epoch \in {0, 1}

Inv ==
  /\ Types
  /\ \A r \in Rooms : Sound(store[r])
  /\ KeptIsYoung
  /\ NothingLostEarly

(* A record that is not older than the cutoff survives a pruning.          *)
LEMMA YoungSurvives ==
  ASSUME NEW st, Sound(st), NEW cutoff \in Int,
         NEW i \in DOMAIN st.messages, st.messages[i].date >= cutoff
  PROVE  \E j \in DOMAIN Pruned(st, cutoff).messages :
           Pruned(st, cutoff).messages[j] = st.messages[i]
<1> DEFINE m == st.messages
           k == Stale(m, cutoff)
           p == Pruned(st, cutoff).messages
<1>1. m \in Seq(Entry) /\ p \in Seq(Entry)
  BY PrunedSound, RoomTypes DEF Sound
<1>2. /\ Len(m) \in Nat /\ DOMAIN m = 1..Len(m)
      /\ \A n \in 1..Len(m) : m[n] \in Entry /\ m[n].date \in Int
  BY <1>1, EntryTypes
<1>3. k \in 0..Len(m) /\ \A n \in 1..k : m[n].date < cutoff
  BY <1>1, StaleIsPrefix
<1>4. p = SubSeq(m, k + 1, Len(m))
  BY PrunedSound
<1>5. m[i].date >= cutoff
  OBVIOUS
<1>6. i \in 1..Len(m)
  BY <1>2
<1> HIDE DEF m, k, p
<1>7. i > k
  BY <1>2, <1>3, <1>5, <1>6
<1>8. /\ Len(p) = Len(m) - k /\ DOMAIN p = 1..Len(p)
      /\ \A n \in 1..Len(p) : p[n] = m[n + k]
  BY <1>1, <1>3, <1>4, SuffixElements
<1>9. i - k \in 1..Len(p) /\ (i - k) + k = i
  BY <1>2, <1>3, <1>6, <1>7, <1>8
<1>10. p[i - k] = m[i]
  BY <1>8, <1>9
<1>. QED BY <1>8, <1>9, <1>10 DEF m, p

LEMMA InitInv == Init => Inv
<1> SUFFICES ASSUME Init PROVE Inv
  OBVIOUS
<1>1. \A r \in Rooms : store[r] = Empty
  BY DEF Init
<1>2. Empty \in RoomStore
  BY EmptySound DEF Sound
<1>3. Types
  BY <1>2, BoundsAssumption DEF Init, Types, Dates
<1>. QED BY <1>1, <1>3, EmptySound DEF Init, Inv, KeptIsYoung, NothingLostEarly

(* The cutoff of the wall clock is MaxAge ago, except in the time after a  *)
(* change, when it is later in spring and earlier in autumn.               *)
LEMMA CutoffOfWeek ==
  ASSUME NEW t \in Int
  PROVE  /\ Cutoff(t) \in Int
         /\ Cutoff(t) <= t - MaxAge + (IF AfterSpring(t) THEN Shift ELSE 0)
         /\ Cutoff(t) >= t - MaxAge - (IF AfterAutumn(t) THEN Shift ELSE 0)
BY BoundsAssumption, ZoneAssumption DEF Cutoff, WallClock, Timestamp, AfterSpring, AfterAutumn

(* What the times of a step have to do with each other: whatever is not    *)
(* due by now is not older than the cutoff of this or an earlier instant.  *)
LEMMA Times ==
  /\ \A d \in Dates : d \in Int /\ Cutoff(d) \in Int
  /\ clock \in Dates => \A d \in 0..clock : d \in Dates /\ d <= clock
  /\ \A d, t, now \in Dates : t <= now /\ ~Due(d, now) => d >= Cutoff(t)
<1>1. \A d \in Dates : d \in Int
  BY BoundsAssumption DEF Dates
<1>2. \A d \in Dates : Cutoff(d) \in Int
  BY <1>1, CutoffOfWeek
<1>3. clock \in Dates => \A d \in 0..clock : d \in Dates /\ d <= clock
  BY BoundsAssumption DEF Dates
<1>4. ASSUME NEW d \in Dates, NEW t \in Dates, NEW now \in Dates, t <= now, ~Due(d, now)
      PROVE  d >= Cutoff(t)
  <2> DEFINE limit == t - MaxAge + (IF AfterSpring(t) THEN Shift ELSE 0)
  <2>1. ~(d < limit)
    BY <1>4 DEF Due
  <2>2. limit \in Int
    BY <1>1, BoundsAssumption, ZoneAssumption
  <2>3. Cutoff(t) \in Int /\ Cutoff(t) <= limit
    BY <1>1, CutoffOfWeek
  <2> HIDE DEF limit
  <2>. QED BY <1>1, <2>1, <2>2, <2>3
<1>. QED BY <1>1, <1>2, <1>3, <1>4

LEMMA AppendInv ==
  ASSUME Inv, NEW r \in Rooms, NEW id \in Ids, NEW date \in 0..clock, AppendRecord(r, id, date)
  PROVE  Inv'
<1> DEFINE st(q) == IF q = r THEN Appended(store[q], id, date) ELSE store[q]
           c == Cutoff(date)
           new == [room |-> r, id |-> id, date |-> date]
<1>1. date \in Dates /\ c \in Int /\ date \in Int /\ date <= clock /\ clock \in Dates
  BY Times DEF Inv, Types
<1>2. /\ store' = [q \in Rooms |-> Pruned(st(q), c)]
      /\ clock' = clock /\ epoch' = epoch
  BY DEF AppendRecord
<1>3. kept' \subseteq kept \cup {k \in {new} : ~Due(k.date, clock) /\ ~Known(store[r], id)}
  BY DEF AppendRecord
<1>4. \A q \in Rooms : Sound(store[q])
  BY DEF Inv
<1>5. \A q \in Rooms : Sound(st(q))
  <2> SUFFICES ASSUME NEW q \in Rooms PROVE Sound(st(q))
    OBVIOUS
  <2>1. Sound(Appended(store[q], id, date))
    BY <1>1, <1>4, AppendedSound
  <2>. QED BY <1>4, <2>1
<1>6. ASSUME NEW q \in Rooms, NEW i \in DOMAIN store[q].messages
      PROVE  i \in DOMAIN st(q).messages /\ st(q).messages[i] = store[q].messages[i]
  <2>1. CASE q # r \/ Known(store[q], id)
    BY <2>1 DEF Appended
  <2>2. CASE q = r /\ ~Known(store[q], id)
    <3> DEFINE m == store[q].messages
               e == [id |-> id, date |-> date, seq |-> store[q].nextSeq]
    <3>1. st(q).messages = Append(m, e)
      BY <1>1, <1>4, <2>2, AppendedSound
    <3>2. m \in Seq(Entry) /\ store[q].nextSeq \in Nat
      BY <1>4, RoomTypes DEF Sound
    <3>3. e \in Entry
      BY <1>1, <3>2 DEF Entry
    <3> HIDE DEF e
    <3>4. /\ Append(m, e) \in Seq(Entry) /\ Len(Append(m, e)) = Len(m) + 1
          /\ \A n \in 1..Len(m) : Append(m, e)[n] = m[n]
      BY <3>2, <3>3, AppendProperties
    <3>5. DOMAIN m = 1..Len(m) /\ DOMAIN Append(m, e) = 1..Len(m) + 1 /\ Len(m) \in Nat
      BY <3>2, <3>4, LenProperties
    <3>. QED BY <3>1, <3>4, <3>5
  <2>. QED BY <2>1, <2>2
<1>7. ASSUME ~Known(store[r], id)
      PROVE  \E i \in DOMAIN st(r).messages : /\ st(r).messages[i].id = id
                                              /\ st(r).messages[i].date = date
  <2> DEFINE m == store[r].messages
             e == [id |-> id, date |-> date, seq |-> store[r].nextSeq]
  <2>1. st(r).messages = Append(m, e)
    BY <1>1, <1>4, <1>7, AppendedSound
  <2>2. m \in Seq(Entry) /\ store[r].nextSeq \in Nat
    BY <1>4, RoomTypes DEF Sound
  <2>3. e \in Entry /\ e.id = id /\ e.date = date
    BY <1>1, <2>2 DEF Entry
  <2> HIDE DEF e
  <2>4. /\ Append(m, e) \in Seq(Entry) /\ Len(Append(m, e)) = Len(m) + 1
        /\ Append(m, e)[Len(m) + 1] = e
    BY <2>2, <2>3, AppendProperties
  <2>5. Len(m) + 1 \in DOMAIN Append(m, e)
    BY <2>2, <2>4, LenProperties
  <2>. QED BY <2>1, <2>3, <2>4, <2>5
<1> HIDE DEF st
<1>8. \A q \in Rooms : Sound(store'[q])
  BY <1>1, <1>2, <1>5, PrunedSound
<1>9. KeptIsYoung'
  BY <1>2, <1>3 DEF Inv, KeptIsYoung
<1>10. kept' \subseteq [room : Rooms, id : Ids, date : Dates]
  BY <1>1, <1>3 DEF Inv, Types
<1>11. NothingLostEarly'
  <2> SUFFICES ASSUME NEW k \in kept'
               PROVE  \E i \in DOMAIN store'[k.room].messages :
                        /\ store'[k.room].messages[i].id = k.id
                        /\ store'[k.room].messages[i].date = k.date
    BY DEF NothingLostEarly
  <2>1. k.room \in Rooms /\ k.date \in Dates
    BY <1>10
  <2>2. \E i \in DOMAIN st(k.room).messages : /\ st(k.room).messages[i].id = k.id
                                              /\ st(k.room).messages[i].date = k.date
    <3>1. CASE k \in kept
      <4>1. PICK i \in DOMAIN store[k.room].messages :
                   /\ store[k.room].messages[i].id = k.id
                   /\ store[k.room].messages[i].date = k.date
        BY <3>1 DEF Inv, NothingLostEarly
      <4>. QED BY <1>6, <2>1, <4>1
    <3>2. CASE k \notin kept
      <4>1. k = new /\ ~Known(store[r], id)
        BY <1>3, <3>2
      <4>2. k.room = r /\ k.id = id /\ k.date = date
        BY <4>1
      <4>. QED BY <1>7, <4>1, <4>2
    <3>. QED BY <3>1, <3>2
  <2>3. k.date >= c
    <3>1. ~Due(k.date, clock)
      BY <1>2, <1>9 DEF KeptIsYoung
    <3>. QED BY <1>1, <2>1, <3>1, Times
  <2>. QED BY <1>1, <1>2, <1>5, <2>1, <2>2, <2>3, YoungSurvives
<1>12. Types'
  BY <1>2, <1>8, <1>10 DEF Inv, Types, Sound
<1>. QED BY <1>8, <1>9, <1>11, <1>12 DEF Inv

LEMMA QueryInv ==
  ASSUME Inv, Query
  PROVE  Inv'
<1> DEFINE c == Cutoff(clock)
<1>1. c \in Int /\ clock \in Int /\ clock \in Dates
  BY Times DEF Inv, Types
<1>2. /\ store' = [r \in Rooms |-> Pruned(store[r], c)]
      /\ clock' = clock /\ kept' = kept /\ epoch' = epoch
  BY DEF Query
<1>3. \A r \in Rooms : Sound(store'[r])
  BY <1>1, <1>2, PrunedSound DEF Inv
<1>4. NothingLostEarly'
  <2> SUFFICES ASSUME NEW k \in kept
               PROVE  \E i \in DOMAIN store'[k.room].messages :
                        /\ store'[k.room].messages[i].id = k.id
                        /\ store'[k.room].messages[i].date = k.date
    BY <1>2 DEF NothingLostEarly
  <2>1. k.room \in Rooms /\ k.date \in Dates
    BY DEF Inv, Types
  <2>2. PICK i \in DOMAIN store[k.room].messages : /\ store[k.room].messages[i].id = k.id
                                                   /\ store[k.room].messages[i].date = k.date
    BY DEF Inv, NothingLostEarly
  <2>3. k.date >= c
    <3>1. ~Due(k.date, clock)
      BY DEF Inv, KeptIsYoung
    <3>2. clock <= clock
      BY <1>1
    <3>. QED BY <1>1, <2>1, <3>1, <3>2, Times
  <2>4. Sound(store[k.room]) /\ store'[k.room] = Pruned(store[k.room], c)
    BY <1>2, <2>1 DEF Inv
  <2>5. store[k.room].messages[i].date >= c
    BY <2>2, <2>3
  <2>6. PICK j \in DOMAIN store'[k.room].messages :
               store'[k.room].messages[j] = store[k.room].messages[i]
    BY <1>1, <2>4, <2>5, YoungSurvives
  <2>. QED BY <2>2, <2>6
<1>5. KeptIsYoung'
  BY <1>2 DEF Inv, KeptIsYoung
<1>6. Types'
  BY <1>2, <1>3 DEF Inv, Types, Sound
<1>. QED BY <1>3, <1>4, <1>5, <1>6 DEF Inv

LEMMA ReplaceInv ==
  ASSUME Inv, Replace
  PROVE  Inv'
<1> DEFINE c == Cutoff(clock)
<1>1. c \in Int /\ clock \in Int /\ clock \in Dates
  BY Times DEF Inv, Types
<1>2. PICK m \in [Rooms -> Loads] :
        /\ store' = [r \in Rooms |-> Pruned(StoreOf(m[r]), c)]
        /\ kept' = {k \in [room : Rooms, id : Ids, date : Dates] :
                      /\ [id |-> k.id, date |-> k.date] \in {m[k.room][i] : i \in DOMAIN m[k.room]}
                      /\ ~Due(k.date, clock)}
        /\ epoch' = 1 - epoch /\ clock' = clock
  BY DEF Replace
<1>3. \A r \in Rooms : m[r] \in Loads /\ Sound(StoreOf(m[r]))
  BY LoadedSound
<1>4. \A r \in Rooms : Sound(store'[r])
  BY <1>1, <1>2, <1>3, PrunedSound
<1>5. kept' \subseteq [room : Rooms, id : Ids, date : Dates]
  BY <1>2
<1>6. KeptIsYoung'
  BY <1>2 DEF KeptIsYoung
<1>7. NothingLostEarly'
  <2> SUFFICES ASSUME NEW k \in kept'
               PROVE  \E i \in DOMAIN store'[k.room].messages :
                        /\ store'[k.room].messages[i].id = k.id
                        /\ store'[k.room].messages[i].date = k.date
    BY DEF NothingLostEarly
  <2>1. k.room \in Rooms /\ k.date \in Dates
    BY <1>5
  <2> DEFINE l == m[k.room]
             s == StoreOf(l).messages
  <2>2. PICK i \in DOMAIN l : l[i] = [id |-> k.id, date |-> k.date]
    <3>1. [id |-> k.id, date |-> k.date] \in {l[i] : i \in DOMAIN l}
      BY <1>2, Zenon
    <3>. QED BY <3>1
  <2>3. l[i].id = k.id /\ l[i].date = k.date
    BY <2>2
  <2>4. /\ l \in Loads /\ DOMAIN l = 1..Len(l)
        /\ Sound(StoreOf(l)) /\ Len(s) = Len(l)
        /\ s[i].id = k.id /\ s[i].date = k.date
    BY <1>3, <2>1, <2>3, LoadTypes, LoadedSound
  <2>5. i \in DOMAIN s
    <3>1. s \in Seq(Entry)
      BY <2>4, RoomTypes DEF Sound
    <3>. QED BY <2>4, <3>1, LenProperties
  <2>6. k.date >= c
    <3>1. ~Due(k.date, clock)
      BY <1>2
    <3>2. clock <= clock
      BY <1>1
    <3>. QED BY <1>1, <2>1, <3>1, <3>2, Times
  <2>. QED BY <1>1, <1>2, <2>1, <2>4, <2>5, <2>6, YoungSurvives
<1>8. Types'
  BY <1>2, <1>4, <1>5 DEF Inv, Types, Sound
<1>. QED BY <1>4, <1>6, <1>7, <1>8 DEF Inv

LEMMA ClearInv ==
  ASSUME Inv, ClearHistory
  PROVE  Inv'
<1>1. store' \in [Rooms -> RoomStore] /\ \A r \in Rooms : Sound(store'[r])
  BY EmptySound DEF ClearHistory, Sound
<1>. QED BY <1>1 DEF ClearHistory, Inv, Types, KeptIsYoung, NothingLostEarly

LEMMA TickInv ==
  ASSUME Inv, Tick
  PROVE  Inv'
<1>1. /\ store' = store /\ epoch' = epoch
      /\ kept' \subseteq kept /\ \A k \in kept' : ~Due(k.date, clock')
  BY DEF Tick
<1>2. clock' \in Dates
  BY BoundsAssumption DEF Tick, Inv, Types, Dates
<1>. QED BY <1>1, <1>2 DEF Inv, Types, KeptIsYoung, NothingLostEarly

LEMMA NextInv == Inv /\ [Next]_vars => Inv'
<1> SUFFICES ASSUME Inv, [Next]_vars PROVE Inv'
  OBVIOUS
<1>1. CASE UNCHANGED vars
  BY <1>1 DEF vars, Inv, Types, KeptIsYoung, NothingLostEarly
<1>. QED BY <1>1, AppendInv, QueryInv, ReplaceInv, ClearInv, TickInv DEF Next

LEMMA Invariance == Spec => []Inv
BY InitInv, NextInv, PTL DEF Spec

-----------------------------------------------------------------------------
(* Deque, index, counter and clock keep their types.                       *)
THEOREM HistoryTypes == Spec => []TypeOK
<1>1. Inv => TypeOK
  BY DEF Inv, Types, TypeOK
<1>. QED BY <1>1, Invariance, PTL

(* Index and deque of a room agree after any mix of recording, pruning,    *)
(* reloading and restart of the numbering (history.py:55-95).              *)
THEOREM IndexFollowsDeque == Spec => []IndexMatches
<1>1. Inv => IndexMatches
  BY DEF Inv, Sound, Numbered, IndexMatches
<1>. QED BY <1>1, Invariance, PTL

(* No record is pruned before it is older than max_age, on account of a    *)
(* late record, another room or a restart of the numbering.                *)
THEOREM RetainedUntilOld == Spec => []NothingLostEarly
<1>1. Inv => NothingLostEarly
  BY DEF Inv
<1>. QED BY <1>1, Invariance, PTL

-----------------------------------------------------------------------------
(* The refinement of HistoryLog.  What a room's log looks like:            *)

LEMMA LogTypes ==
  ASSUME NEW m \in Seq(Entry)
  PROVE  /\ LogOf(m) \in Seq(H!Event)
         /\ Len(LogOf(m)) = Len(m) /\ DOMAIN LogOf(m) = 1..Len(m)
         /\ \A i \in 1..Len(m) : /\ LogOf(m)[i] \in H!Event
                                 /\ LogOf(m)[i] = [id |-> m[i].id, date |-> m[i].date]
                                 /\ LogOf(m)[i].id = m[i].id
                                 /\ LogOf(m)[i].date = m[i].date
<1>1. /\ Len(m) \in Nat /\ DOMAIN m = 1..Len(m)
      /\ \A i \in 1..Len(m) : m[i].id \in Ids /\ m[i].date \in Dates
  BY EntryTypes
<1>2. \A i \in 1..Len(m) : [id |-> m[i].id, date |-> m[i].date] \in H!Event
  BY <1>1 DEF H!Event
<1>3. /\ DOMAIN LogOf(m) = 1..Len(m)
      /\ \A i \in 1..Len(m) : LogOf(m)[i] = [id |-> m[i].id, date |-> m[i].date]
  BY <1>1 DEF LogOf
<1>4. LogOf(m) \in [1..Len(m) -> H!Event]
  BY <1>1, <1>2 DEF LogOf
<1>5. LogOf(m) \in Seq(H!Event)
  BY <1>1, <1>4, SeqDef
<1>6. Len(LogOf(m)) = Len(m)
  BY <1>1, <1>3, <1>5, LenProperties
<1>. QED BY <1>2, <1>3, <1>5, <1>6

LEMMA LogOfEmpty == LogOf(<<>>) = <<>>
BY DEF LogOf

LEMMA LogOfAppend ==
  ASSUME NEW m \in Seq(Entry), NEW e \in Entry
  PROVE  LogOf(Append(m, e)) = Append(LogOf(m), [id |-> e.id, date |-> e.date])
<1> DEFINE a == Append(m, e)
           d == [id |-> e.id, date |-> e.date]
           b == Append(LogOf(m), d)
<1>1. /\ a \in Seq(Entry) /\ Len(a) = Len(m) + 1 /\ a[Len(m) + 1] = e
      /\ \A i \in 1..Len(m) : a[i] = m[i]
  BY AppendProperties
<1>2. d \in H!Event
  BY DEF Entry, H!Event
<1>3. /\ LogOf(m) \in Seq(H!Event) /\ Len(LogOf(m)) = Len(m) /\ Len(m) \in Nat
      /\ \A i \in 1..Len(m) : LogOf(m)[i] = [id |-> m[i].id, date |-> m[i].date]
  BY LogTypes, LenProperties
<1>4. /\ LogOf(a) \in Seq(H!Event) /\ Len(LogOf(a)) = Len(m) + 1
      /\ \A i \in 1..Len(m) + 1 : LogOf(a)[i] = [id |-> a[i].id, date |-> a[i].date]
  BY <1>1, LogTypes
<1> HIDE DEF d
<1>5. /\ b \in Seq(H!Event) /\ Len(b) = Len(m) + 1 /\ b[Len(m) + 1] = d
      /\ \A i \in 1..Len(m) : b[i] = LogOf(m)[i]
  BY <1>2, <1>3, AppendProperties
<1> HIDE DEF a, b
<1>6. \A i \in 1..Len(m) + 1 : LogOf(a)[i] = b[i]
  <2> SUFFICES ASSUME NEW i \in 1..Len(m) + 1 PROVE LogOf(a)[i] = b[i]
    OBVIOUS
  <2>1. CASE i = Len(m) + 1
    BY <1>1, <1>4, <1>5, <2>1 DEF d
  <2>2. CASE i # Len(m) + 1
    <3>1. i \in 1..Len(m)
      BY <1>3, <2>2
    <3>. QED BY <1>1, <1>3, <1>4, <1>5, <3>1
  <2>. QED BY <2>1, <2>2
<1>7. LogOf(a) = b
  BY <1>4, <1>5, <1>6, SeqEqual
<1>. QED BY <1>7 DEF a, b, d

(* Removing from the old end of a deque removes from the old end of its log. *)
LEMMA LogOfSuffix ==
  ASSUME NEW m \in Seq(Entry), NEW k \in 0..Len(m)
  PROVE  /\ SubSeq(m, k + 1, Len(m)) \in Seq(Entry)
         /\ LogOf(SubSeq(m, k + 1, Len(m))) = SubSeq(LogOf(m), k + 1, Len(m))
         /\ LogOf(SubSeq(m, k + 1, Len(m))) \in H!Suffixes(LogOf(m))
<1> DEFINE s == SubSeq(m, k + 1, Len(m))
           l == LogOf(m)
           t == SubSeq(l, k + 1, Len(m))
<1>1. Len(m) \in Nat /\ \A i \in 1..Len(m) : m[i] \in Entry
  BY EntryTypes
<1>2. /\ l \in Seq(H!Event) /\ Len(l) = Len(m) /\ DOMAIN l = 1..Len(m)
      /\ \A i \in 1..Len(m) : l[i] \in H!Event /\ l[i] = [id |-> m[i].id, date |-> m[i].date]
  BY LogTypes
<1> HIDE DEF l
<1>3. /\ s \in Seq(Entry) /\ Len(s) = Len(m) - k
      /\ \A i \in 1..Len(s) : i + k \in 1..Len(m) /\ s[i] = m[i + k]
  BY SuffixElements
<1>4. /\ t \in Seq(H!Event) /\ Len(t) = Len(m) - k
      /\ \A i \in 1..Len(t) : t[i] = l[i + k]
  <2>1. k \in 0..Len(l) /\ t = SubSeq(l, k + 1, Len(l))
    BY <1>2
  <2> HIDE DEF t
  <2>. QED BY <1>2, <2>1, SuffixElements
<1> HIDE DEF s, t
<1>5. /\ LogOf(s) \in Seq(H!Event) /\ Len(LogOf(s)) = Len(s)
      /\ \A i \in 1..Len(s) : LogOf(s)[i] = [id |-> s[i].id, date |-> s[i].date]
  BY <1>3, LogTypes
<1>6. ASSUME NEW i \in 1..Len(s) PROVE LogOf(s)[i] = t[i]
  <2>1. i \in 1..Len(t) /\ i + k \in 1..Len(m) /\ s[i] = m[i + k]
    BY <1>3, <1>4
  <2>2. LogOf(s)[i] = [id |-> m[i + k].id, date |-> m[i + k].date]
    BY <1>5, <2>1
  <2>3. t[i] = l[i + k]
    BY <1>4, <2>1
  <2>. QED BY <1>2, <2>1, <2>2, <2>3
<1>7. LogOf(s) = t
  BY <1>3, <1>4, <1>5, <1>6, SeqEqual
<1>8. k + 1 \in 1..Len(l) + 1
  BY <1>1, <1>2
<1>9. t \in H!Suffixes(l)
  BY <1>2, <1>8 DEF t, H!Suffixes
<1>. QED BY <1>3, <1>7, <1>9 DEF s, t, l

LEMMA LogOfPruned ==
  ASSUME NEW st, Sound(st), NEW cutoff \in Int
  PROVE  LogOf(Pruned(st, cutoff).messages) \in H!Suffixes(LogOf(st.messages))
<1>1. st.messages \in Seq(Entry)
  BY RoomTypes DEF Sound
<1>2. Stale(st.messages, cutoff) \in 0..Len(st.messages)
  BY <1>1, StaleIsPrefix
<1>. QED BY <1>1, <1>2, PrunedSound, LogOfSuffix

-----------------------------------------------------------------------------
(* Every step of the history is a step of the log, or none.                *)

logVars == <<[r \in Rooms |-> LogOf(store[r].messages)], epoch>>

LEMMA LogsTyped ==
  ASSUME Inv
  PROVE  [r \in Rooms |-> LogOf(store[r].messages)] \in [Rooms -> Seq(H!Event)]
<1>1. \A r \in Rooms : LogOf(store[r].messages) \in Seq(H!Event)
  BY RoomTypes, LogTypes DEF Inv, Sound
<1>. QED BY <1>1

(* Rooms in which nothing is recorded only lose their oldest events.       *)
LEMMA PruneIsDrop ==
  ASSUME Inv, NEW cutoff \in Int, NEW q \in Rooms,
         store'[q].messages = Pruned(store[q], cutoff).messages
  PROVE  LogOf(store'[q].messages) \in H!Suffixes(LogOf(store[q].messages))
BY LogOfPruned DEF Inv

LEMMA QueryIsDrop ==
  ASSUME Inv, Query
  PROVE  H!Drop
<1>1. Cutoff(clock) \in Int
  BY Times DEF Inv, Types
<1>2. \A r \in Rooms : store'[r] = Pruned(store[r], Cutoff(clock))
  BY DEF Query
<1>3. \A r \in Rooms : LogOf(store'[r].messages) \in H!Suffixes(LogOf(store[r].messages))
  BY <1>1, <1>2, PruneIsDrop
<1>. QED BY <1>3 DEF H!Drop, Query

(* A record that the history knows is a step that only drops; another one  *)
(* is recorded in its room's log.                                          *)
LEMMA AppendIsRecord ==
  ASSUME Inv, NEW r \in Rooms, NEW id \in Ids, NEW date \in 0..clock, AppendRecord(r, id, date)
  PROVE  H!Drop \/ \E e \in H!Event : H!Record(r, e)
<1> DEFINE c == Cutoff(date)
           st == store[r]
           L(q) == LogOf(store[q].messages)
           LN(q) == LogOf(store'[q].messages)
<1>1. date \in Dates /\ c \in Int
  BY Times DEF Inv, Types
<1>2. /\ store' = [q \in Rooms |->
                     Pruned(IF q = r THEN Appended(store[q], id, date) ELSE store[q], c)]
      /\ epoch' = epoch
  BY DEF AppendRecord
<1>3. \A q \in Rooms \ {r} : LN(q) \in H!Suffixes(L(q))
  BY <1>1, <1>2, PruneIsDrop
<1>4. Sound(st) /\ store'[r] = Pruned(Appended(st, id, date), c)
  BY <1>2 DEF Inv
<1>5. CASE Known(st, id)
  <2>1. LN(r) \in H!Suffixes(L(r))
    BY <1>1, <1>4, <1>5, PruneIsDrop DEF Appended
  <2>. QED BY <1>2, <1>3, <2>1 DEF H!Drop
<1>6. CASE ~Known(st, id)
  <2> DEFINE a == Appended(st, id, date)
             e == [id |-> id, date |-> date]
             n == [id |-> id, date |-> date, seq |-> st.nextSeq]
  <2>1. Sound(a) /\ a.messages = Append(st.messages, n)
    BY <1>1, <1>4, <1>6, AppendedSound
  <2>2. st.messages \in Seq(Entry) /\ st.nextSeq \in Nat
    BY <1>4, RoomTypes DEF Sound
  <2>3. n \in Entry /\ n.id = id /\ n.date = date
    BY <1>1, <2>2 DEF Entry
  <2>4. e \in H!Event /\ e.id = id
    BY <1>1 DEF H!Event
  <2> HIDE DEF n, a
  <2>5. LogOf(a.messages) = Append(L(r), e)
    BY <2>1, <2>2, <2>3, LogOfAppend
  <2>6. LN(r) \in H!Suffixes(Append(L(r), e))
    BY <1>1, <1>4, <2>1, <2>5, LogOfPruned DEF a
  <2>7. id \notin H!IdsOf(L(r))
    <3>1. \A i \in DOMAIN L(r) : L(r)[i].id = st.messages[i].id /\ i \in DOMAIN st.messages
      BY <2>2, LogTypes, LenProperties
    <3>2. \A i \in DOMAIN st.messages : st.messages[i].id # id
      <4> SUFFICES ASSUME NEW i \in DOMAIN st.messages, st.messages[i].id = id PROVE FALSE
        OBVIOUS
      <4>1. st.index[id] = st.messages[i].seq
        BY <1>4 DEF Sound, Numbered
      <4>2. st.messages[i].seq \in Nat
        BY <2>2, EntryTypes
      <4>. QED BY <1>6, <4>1, <4>2, NoSeqAssumption DEF Known
    <3>. QED BY <3>1, <3>2 DEF H!IdsOf
  <2> HIDE DEF e
  <2>8. H!Record(r, e)
    BY <1>2, <1>3, <2>4, <2>6, <2>7 DEF H!Record
  <2>. QED BY <2>4, <2>8
<1>. QED BY <1>5, <1>6

(* A pruned load is in the order of dates and holds each id once.          *)
LEMMA ReplaceIsReload ==
  ASSUME Inv, Replace
  PROVE  H!Reload
<1> DEFINE c == Cutoff(clock)
           LN(q) == LogOf(store'[q].messages)
<1>1. c \in Int
  BY Times DEF Inv, Types
<1>2. PICK m \in [Rooms -> Loads] : /\ store' = [r \in Rooms |-> Pruned(StoreOf(m[r]), c)]
                                    /\ epoch' = 1 - epoch
  BY DEF Replace
<1>3. ASSUME NEW r \in Rooms
      PROVE  /\ H!Distinct(LN(r))
             /\ \A i, j \in DOMAIN LN(r) : i < j => LN(r)[i].date <= LN(r)[j].date
  <2> DEFINE st == StoreOf(m[r])
             d == st.messages
             k == Stale(d, c)
             s == SubSeq(d, k + 1, Len(d))
  <2>1. m[r] \in Loads
    OBVIOUS
  <2>2. /\ Sound(st) /\ Len(d) = Len(m[r])
        /\ \A i \in 1..Len(d) : d[i].id = m[r][i].id /\ d[i].date = m[r][i].date
    BY <2>1, LoadedSound
  <2>3. /\ \A i, j \in 1..Len(d) : d[i].id = d[j].id => i = j
        /\ \A i, j \in 1..Len(d) : i < j => d[i].date <= d[j].date
    BY <2>1, <2>2, LoadTypes
  <2>4. d \in Seq(Entry)
    BY <2>2, RoomTypes DEF Sound
  <2>6. k \in 0..Len(d)
    BY <1>1, <2>4, StaleIsPrefix
  <2>7. store'[r].messages = s
    BY <1>1, <1>2, <2>2, PrunedSound
  <2> HIDE DEF d, st, k
  <2>9. /\ s \in Seq(Entry) /\ Len(s) \in Nat
        /\ \A i \in 1..Len(s) : i + k \in 1..Len(d) /\ s[i] = d[i + k]
    BY <2>4, <2>6, SuffixElements
  <2> HIDE DEF s
  <2>12. /\ DOMAIN LN(r) = 1..Len(s)
         /\ \A i \in 1..Len(s) : LN(r)[i].id = s[i].id /\ LN(r)[i].date = s[i].date
    BY <2>7, <2>9, LogTypes
  <2>13. ASSUME NEW i \in 1..Len(s), NEW j \in 1..Len(s)
         PROVE  /\ LN(r)[i].id = LN(r)[j].id => i = j
                /\ i < j => LN(r)[i].date <= LN(r)[j].date
    <3>1. i + k \in 1..Len(d) /\ j + k \in 1..Len(d) /\ (i < j => i + k < j + k)
          /\ (i + k = j + k => i = j)
      BY <2>6, <2>9
    <3>2. /\ LN(r)[i].id = d[i + k].id /\ LN(r)[j].id = d[j + k].id
          /\ LN(r)[i].date = d[i + k].date /\ LN(r)[j].date = d[j + k].date
      BY <2>9, <2>12
    <3>. QED BY <2>3, <3>1, <3>2
  <2>. QED BY <2>12, <2>13 DEF H!Distinct
<1>. QED BY <1>2, <1>3 DEF H!Reload

LEMMA ClearIsReload ==
  ASSUME ClearHistory
  PROVE  H!Reload
<1>1. \A r \in Rooms : LogOf(store'[r].messages) = <<>>
  BY EmptySound, LogOfEmpty DEF ClearHistory
<1>. QED BY <1>1 DEF ClearHistory, H!Reload, H!Distinct

LEMMA StepRefines ==
  ASSUME Inv, Inv', [Next]_vars
  PROVE  [H!Next]_logVars
<1>1. [r \in Rooms |-> LogOf(store'[r].messages)] \in [Rooms -> Seq(H!Event)]
  <2>1. \A r \in Rooms : LogOf(store'[r].messages) \in Seq(H!Event)
    BY RoomTypes, LogTypes DEF Inv, Sound
  <2>. QED BY <2>1
<1>2. ASSUME NEW r \in Rooms, NEW id \in Ids, NEW date \in 0..clock, AppendRecord(r, id, date)
      PROVE  H!Next
  BY <1>1, <1>2, AppendIsRecord DEF H!Next
<1>3. CASE Query
  BY <1>1, <1>3, QueryIsDrop DEF H!Next
<1>4. CASE Replace
  BY <1>1, <1>4, ReplaceIsReload DEF H!Next
<1>5. CASE ClearHistory
  BY <1>1, <1>5, ClearIsReload DEF H!Next
<1>6. CASE Tick \/ UNCHANGED vars
  <2>1. store' = store /\ epoch' = epoch
    BY <1>6 DEF Tick, vars
  <2>. QED BY <2>1 DEF logVars
<1>. QED BY <1>2, <1>3, <1>4, <1>5, <1>6 DEF Next

(* The history implements HistoryLog: numbers, index and the loop of       *)
(* _prune_locked amount to a log from whose old end events are dropped,    *)
(* and in which a retry is recorded once.                                  *)
THEOREM HistoryImplementsLog == Spec => ImplementsLog
<1>1. Init => H!Init
  <2> SUFFICES ASSUME Init PROVE H!Init
    OBVIOUS
  <2>1. \A r \in Rooms : LogOf(store[r].messages) = <<>>
    BY EmptySound, LogOfEmpty DEF Init
  <2>. QED BY <2>1 DEF Init, H!Init
<1>2. Inv /\ Inv' /\ [Next]_vars => [H!Next]_logVars
  BY StepRefines
<1>. QED BY <1>1, <1>2, Invariance, PTL DEF Spec, ImplementsLog, H!Spec, logVars

-----------------------------------------------------------------------------
(* What messages_after answers.  The records with a larger number than the *)
(* n-th are those behind it: shown by induction over the list              *)
(* comprehension, from a least i at which it would differ.                 *)
LEMMA NewerIsRest ==
  ASSUME NEW m \in Seq(Entry), NEW n \in 1..Len(m),
         \A i, j \in 1..Len(m) : i < j => m[i].seq < m[j].seq
  PROVE  NewerThan(m, m[n].seq) = SubSeq(m, n + 1, Len(m))
<1> DEFINE q == m[n].seq
           body(f) == [i \in 0..Len(m) |->
                         IF i = 0 THEN <<>>
                         ELSE IF m[i].seq > q THEN Append(f[i - 1], m[i])
                         ELSE f[i - 1]]
           g == [i \in 0..Len(m) |-> SubSeq(m, n + 1, i)]
           newer == CHOOSE f : f = body(f)
<1>1. /\ Len(m) \in Nat /\ n \in 1..Len(m)
      /\ \A i \in 1..Len(m) : m[i] \in Entry /\ m[i].seq \in Nat
  BY EntryTypes
<1>2. \A i \in 1..Len(m) : m[i].seq > q <=> i > n
  <2> SUFFICES ASSUME NEW i \in 1..Len(m) PROVE m[i].seq > q <=> i > n
    OBVIOUS
  <2>1. CASE i < n
    BY <1>1, <2>1
  <2>2. CASE i = n
    BY <1>1, <2>2
  <2>3. CASE i > n
    BY <1>1, <2>3
  <2>. QED BY <1>1, <2>1, <2>2, <2>3
<1>3. \A i \in 0..n : SubSeq(m, n + 1, i) = <<>>
  BY <1>1, SubSeqEmpty
<1>4. ASSUME NEW i \in n + 1..Len(m)
      PROVE  SubSeq(m, n + 1, i) = Append(SubSeq(m, n + 1, i - 1), m[i])
  <2>1. n + 1 \in 1..Len(m) /\ i \in 1..Len(m)
    BY <1>1
  <2>2. SubSeq(m, n + 1, i) = SubSeq(m, n + 1, i - 1) \o <<m[i]>>
    BY <2>1, SubSeqRecursiveSecond
  <2>3. SubSeq(m, n + 1, i - 1) \in Seq(Entry)
    <3>1. \A j \in n + 1..i - 1 : m[j] \in Entry
      BY <1>1, <2>1
    <3>2. n + 1 \in Int /\ i - 1 \in Int
      BY <1>1, <2>1
    <3>. QED BY <3>1, <3>2, SubSeqProperties
  <2>. QED BY <1>1, <2>1, <2>2, <2>3, AppendIsConcat
<1> HIDE DEF q
<1>5. ASSUME NEW i \in 0..Len(m)
      PROVE  SubSeq(m, n + 1, i) = IF i = 0 THEN <<>>
                                   ELSE IF m[i].seq > q THEN Append(SubSeq(m, n + 1, i - 1), m[i])
                                   ELSE SubSeq(m, n + 1, i - 1)
  <2>1. CASE i = 0
    BY <1>1, <1>3, <2>1
  <2>2. CASE i \in 1..n
    <3>1. ~(m[i].seq > q) /\ i - 1 \in 0..n /\ i \in 0..n /\ i # 0
      BY <1>1, <1>2, <2>2
    <3>. QED BY <1>3, <3>1
  <2>3. CASE i \in n + 1..Len(m)
    <3>1. m[i].seq > q /\ i # 0
      BY <1>1, <1>2, <2>3
    <3>. QED BY <1>4, <2>3, <3>1
  <2>. QED BY <1>1, <2>1, <2>2, <2>3
<1>6. \A i \in 0..Len(m) : g[i] = SubSeq(m, n + 1, i)
  OBVIOUS
<1>7. \A i \in 1..Len(m) : i - 1 \in 0..Len(m)
  BY <1>1
<1>8. g = body(g)
  <2>1. \A i \in 0..Len(m) : g[i] = body(g)[i]
    <3> SUFFICES ASSUME NEW i \in 0..Len(m) PROVE g[i] = body(g)[i]
      OBVIOUS
    <3>1. CASE i = 0
      BY <1>5, <1>6, <3>1
    <3>2. CASE i # 0
      <4>1. i - 1 \in 0..Len(m)
        BY <1>1, <3>2
      <4>2. g[i - 1] = SubSeq(m, n + 1, i - 1) /\ g[i] = SubSeq(m, n + 1, i)
        BY <1>6, <4>1
      <4>. QED BY <1>5, <3>2, <4>2
    <3>. QED BY <3>1, <3>2
  <2>. QED BY <2>1
<1>9. newer = body(newer)
  <2> HIDE DEF g, body
  <2>1. \E f : f = body(f)
    BY <1>8
  <2>. QED BY <2>1, Zenon
<1> HIDE DEF newer
<1>10. ASSUME NEW i \in 0..Len(m)
       PROVE  newer[i] = IF i = 0 THEN <<>>
                         ELSE IF m[i].seq > q THEN Append(newer[i - 1], m[i])
                         ELSE newer[i - 1]
  BY <1>9
<1> DEFINE T == {i \in 0..Len(m) : newer[i] # SubSeq(m, n + 1, i)}
<1>11. T = {}
  <2> SUFFICES ASSUME T # {} PROVE FALSE
    OBVIOUS
  <2>1. T \in SUBSET Nat
    BY <1>1
  <2>0. \A k \in 0..Len(m) : k \notin T => newer[k] = SubSeq(m, n + 1, k)
    OBVIOUS
  <2> HIDE DEF T
  <2>2. PICK i \in T : \A k \in T : i <= k
    BY <2>1, LeastNumber
  <2>3. i \in 0..Len(m) /\ newer[i] # SubSeq(m, n + 1, i)
    BY <2>2 DEF T
  <2>4. CASE i = 0
    BY <1>5, <1>10, <2>3, <2>4
  <2>5. CASE i # 0
    <3>1. i - 1 \in 0..Len(m) /\ i - 1 < i
      BY <1>1, <2>3, <2>5
    <3>2. i - 1 \notin T
      BY <1>1, <2>2, <2>3, <3>1
    <3>3. newer[i - 1] = SubSeq(m, n + 1, i - 1)
      BY <2>0, <3>1, <3>2
    <3>4. newer[i] = IF m[i].seq > q THEN Append(newer[i - 1], m[i]) ELSE newer[i - 1]
      BY <1>10, <2>3, <2>5
    <3>5. SubSeq(m, n + 1, i) = IF m[i].seq > q THEN Append(SubSeq(m, n + 1, i - 1), m[i])
                                ELSE SubSeq(m, n + 1, i - 1)
      BY <1>5, <2>3, <2>5
    <3> HIDE DEF body, g, q
    <3>6. CASE m[i].seq > q
      <4>1. newer[i] = Append(newer[i - 1], m[i])
        BY <3>4, <3>6
      <4>2. SubSeq(m, n + 1, i) = Append(SubSeq(m, n + 1, i - 1), m[i])
        BY <3>5, <3>6
      <4>. QED BY <2>3, <3>3, <4>1, <4>2, Zenon
    <3>7. CASE ~(m[i].seq > q)
      <4>1. newer[i] = newer[i - 1]
        BY <3>4, <3>7
      <4>2. SubSeq(m, n + 1, i) = SubSeq(m, n + 1, i - 1)
        BY <3>5, <3>7
      <4>. QED BY <2>3, <3>3, <4>1, <4>2, Zenon
    <3>. QED BY <3>6, <3>7
  <2>. QED BY <2>4, <2>5
<1>12. Len(m) \in 0..Len(m)
  BY <1>1
<1>13. NewerThan(m, q) = newer[Len(m)]
  BY DEF NewerThan, newer
<1>. QED BY <1>11, <1>12, <1>13 DEF q

(* What a query finds in a room: the records behind those that are too old. *)
LEMMA QueriedRoom ==
  ASSUME Inv, NEW r \in Rooms
  PROVE  LET c == Cutoff(clock)
             st == Pruned(store[r], c)
         IN  /\ c \in Int
             /\ Sound(st)
             /\ st.messages \in Seq(Entry)
             /\ \A id \in Ids : Answer(r, id) = Selected(st, id)
<1>1. Cutoff(clock) \in Int
  BY Times DEF Inv, Types
<1>2. Sound(Pruned(store[r], Cutoff(clock)))
  BY <1>1, PrunedSound DEF Inv
<1>. QED BY <1>1, <1>2, RoomTypes DEF Sound, Answer

(* Either all of a room is selected, or what is behind the one record with *)
(* the id.                                                                 *)
LEMMA SelectedIsRest ==
  ASSUME NEW st, Sound(st), NEW id \in Ids
  PROVE  \/ /\ \A i \in 1..Len(st.messages) : st.messages[i].id # id
            /\ Selected(st, id) = st.messages
         \/ \E n \in 1..Len(st.messages) :
              /\ st.messages[n].id = id
              /\ \A i \in 1..Len(st.messages) : st.messages[i].id = id => i = n
              /\ Selected(st, id) = SubSeq(st.messages, n + 1, Len(st.messages))
<1> DEFINE m == st.messages
<1>1. m \in Seq(Entry)
  BY RoomTypes DEF Sound
<1>2. /\ Len(m) \in Nat /\ DOMAIN m = 1..Len(m)
      /\ \A i \in 1..Len(m) : m[i].id \in Ids /\ m[i].seq \in Nat
  BY <1>1, EntryTypes
<1>3. /\ \A i, j \in 1..Len(m) : i < j => m[i].seq < m[j].seq
      /\ \A i \in 1..Len(m) : st.index[m[i].id] = m[i].seq
      /\ Known(st, id) => \E i \in 1..Len(m) : m[i].id = id
  BY <1>2 DEF Sound, Numbered
<1>4. \A i \in 1..Len(m) : m[i].id = id => st.index[id] = m[i].seq /\ Known(st, id)
  BY <1>2, <1>3, NoSeqAssumption DEF Known
<1>5. CASE ~Known(st, id)
  BY <1>4, <1>5 DEF Selected
<1>6. CASE Known(st, id)
  <2>1. PICK n \in 1..Len(m) : m[n].id = id
    BY <1>3, <1>6
  <2>2. Selected(st, id) = NewerThan(m, m[n].seq)
    BY <1>4, <1>6, <2>1 DEF Selected
  <2> HIDE DEF m
  <2>3. NewerThan(m, m[n].seq) = SubSeq(m, n + 1, Len(m))
    BY <1>1, <1>3, NewerIsRest
  <2>4. ASSUME NEW i \in 1..Len(m), m[i].id = id PROVE i = n
    <3>1. m[i].seq = m[n].seq
      BY <1>4, <2>1, <2>4
    <3>2. ~(i < n) /\ ~(n < i)
      BY <1>2, <1>3, <3>1
    <3>. QED BY <1>2, <3>2
  <2>. QED BY <2>1, <2>2, <2>3, <2>4 DEF m
<1>. QED BY <1>5, <1>6

(* messages_after answers what follows the named event in the room's log,  *)
(* or all of it (history.py:104-123): comparing numbers finds just that.   *)
THEOREM AnswersTheRest == Spec => []AnswerIsRest
<1>1. ASSUME Inv, NEW r \in Rooms, NEW id \in Ids
      PROVE  LogOf(Answer(r, id)) = H!After(LogOf(Pruned(store[r], Cutoff(clock)).messages), id)
  <2> DEFINE st == Pruned(store[r], Cutoff(clock))
             m == st.messages
             l == LogOf(m)
  <2>1. Sound(st) /\ m \in Seq(Entry) /\ Answer(r, id) = Selected(st, id)
    BY <1>1, QueriedRoom
  <2>2. /\ DOMAIN l = 1..Len(m) /\ Len(l) = Len(m) /\ Len(m) \in Nat
        /\ \A i \in 1..Len(m) : l[i].id = m[i].id
    BY <2>1, LogTypes, LenProperties
  <2> HIDE DEF st
  <2>3. CASE /\ \A i \in 1..Len(m) : m[i].id # id
             /\ Selected(st, id) = m
    <3>1. ~\E i \in DOMAIN l : l[i].id = id
      BY <2>2, <2>3
    <3>2. H!After(l, id) = l
      BY <3>1 DEF H!After
    <3>. QED BY <2>1, <2>3, <3>2 DEF st
  <2>4. ASSUME NEW n \in 1..Len(m),
               m[n].id = id,
               \A i \in 1..Len(m) : m[i].id = id => i = n,
               Selected(st, id) = SubSeq(m, n + 1, Len(m))
        PROVE  LogOf(Answer(r, id)) = H!After(l, id)
    <3>1. n \in 0..Len(m)
      BY <2>2
    <3>2. LogOf(Answer(r, id)) = SubSeq(l, n + 1, Len(m))
      BY <2>1, <2>4, <3>1, LogOfSuffix
    <3> HIDE DEF l, m
    <3>3. n \in DOMAIN l /\ l[n].id = id /\ \A i \in DOMAIN l : l[i].id = id => i = n
      BY <2>2, <2>4
    <3>4. (CHOOSE i \in DOMAIN l : l[i].id = id) = n
      BY <3>3
    <3>5. H!After(l, id) = SubSeq(l, n + 1, Len(l))
      BY <3>3, <3>4 DEF H!After
    <3>. QED BY <2>2, <3>2, <3>5
  <2>. QED BY <2>1, <2>3, <2>4, SelectedIsRest DEF st
<1>2. Inv => AnswerIsRest
  BY <1>1 DEF AnswerIsRest
<1>. QED BY <1>2, Invariance, PTL

(* As long as a room's records lie in the order of their dates, no answer  *)
(* holds one that is too old, though the loop looks at the front only      *)
(* (history.py:79-82).                                                     *)
THEOREM NothingOldInOrder == Spec => []NeverOlderInOrder
<1>1. ASSUME Inv, NEW r \in Rooms, NEW id \in Ids, InOrder(store[r].messages),
             NEW i \in DOMAIN Answer(r, id)
      PROVE  Answer(r, id)[i].date >= clock - MaxAge - (IF AfterAutumn(clock) THEN Shift ELSE 0)
  <2> DEFINE c == Cutoff(clock)
             d == store[r].messages
             k == Stale(d, c)
             st == Pruned(store[r], c)
             m == st.messages
  <2>1. Sound(store[r])
    BY <1>1 DEF Inv
  <2>2. c \in Int /\ Sound(st) /\ m \in Seq(Entry) /\ Answer(r, id) = Selected(st, id)
    BY <1>1, QueriedRoom
  <2>3. d \in Seq(Entry)
    BY <2>1, RoomTypes DEF Sound
  <2>4. /\ Len(d) \in Nat /\ DOMAIN d = 1..Len(d)
        /\ \A j \in 1..Len(d) : d[j] \in Entry /\ d[j].date \in Int
    BY <2>3, EntryTypes
  <2>5. k \in 0..Len(d) /\ (k < Len(d) => d[k + 1].date >= c)
    BY <2>2, <2>3, StaleIsPrefix
  <2>6. m = SubSeq(d, k + 1, Len(d))
    BY <2>1, <2>2, PrunedSound
  <2>7. \A j, n \in 1..Len(d) : j < n => d[j].date <= d[n].date
    BY <1>1, <2>4 DEF InOrder
  <2> HIDE DEF d, st, k, m, c
  <2>8. ASSUME NEW j \in k + 1..Len(d) PROVE d[j].date >= c
    <3>1. k + 1 \in 1..Len(d) /\ j \in 1..Len(d) /\ k < Len(d)
      BY <2>4, <2>5
    <3>2. CASE j = k + 1
      BY <2>5, <3>1, <3>2
    <3>3. CASE j # k + 1
      <4>1. d[k + 1].date <= d[j].date
        BY <2>4, <2>5, <2>7, <3>1, <3>3
      <4>. QED BY <2>2, <2>4, <2>5, <3>1, <4>1
    <3>. QED BY <3>2, <3>3
  <2>9. \A j \in 1..Len(m) : j + k \in k + 1..Len(d) /\ j + k \in 1..Len(d) /\ m[j] = d[j + k]
    BY <2>3, <2>5, <2>6, SuffixElements
  <2>10. \A j \in 1..Len(m) : m[j].date >= c /\ m[j].date \in Int
    BY <2>4, <2>8, <2>9
  <2>11. Answer(r, id)[i].date >= c /\ Answer(r, id)[i].date \in Int
    <3>1. Len(m) \in Nat /\ DOMAIN m = 1..Len(m) /\ \A j \in 1..Len(m) : m[j] \in Entry
      BY <2>2, EntryTypes
    <3>2. CASE Answer(r, id) = m
      BY <2>10, <3>1, <3>2
    <3>3. ASSUME NEW n \in 1..Len(m), Answer(r, id) = SubSeq(m, n + 1, Len(m))
          PROVE  Answer(r, id)[i].date >= c /\ Answer(r, id)[i].date \in Int
      <4> DEFINE a == SubSeq(m, n + 1, Len(m))
      <4>1. n \in 0..Len(m)
        BY <3>1
      <4>2. DOMAIN a = 1..Len(a) /\ \A j \in 1..Len(a) : j + n \in 1..Len(m) /\ a[j] = m[j + n]
        BY <2>2, <4>1, SuffixElements
      <4> HIDE DEF a
      <4>3. i \in 1..Len(a)
        BY <3>3, <4>2 DEF a
      <4>. QED BY <2>10, <3>3, <4>2, <4>3 DEF a
    <3>. QED BY <2>2, <3>2, <3>3, SelectedIsRest DEF m
  <2> DEFINE limit == clock - MaxAge - (IF AfterAutumn(clock) THEN Shift ELSE 0)
  <2>12. clock \in Int
    BY <1>1, Times DEF Inv, Types
  <2>13. limit \in Int
    BY <2>12, BoundsAssumption, ZoneAssumption
  <2>14. c >= limit
    BY <2>12, CutoffOfWeek DEF c
  <2> HIDE DEF limit
  <2>. QED BY <2>2, <2>11, <2>13, <2>14 DEF limit
<1>2. Inv => NeverOlderInOrder
  BY <1>1 DEF NeverOlderInOrder
<1>. QED BY <1>2, Invariance, PTL
=============================================================================
