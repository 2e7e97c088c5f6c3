-------------------------- MODULE EventDeliveryProofs --------------------------
(***************************************************************************)
(* Proofs about the delivery of events, for any clients, events, threads   *)
(* and circumstances: no event passes a client on its first join; and if   *)
(* senders take turns and all events are recorded, none passes a client    *)
(* that resumes, because its lastEventID hides nothing it does not have.   *)
(*                                                                         *)
(* None of these is inductive: what a client has after its join depends on *)
(* what the handler of the join read from the history, and when.  So the   *)
(* invariant says, of every handler that holds an answer, what the answer  *)
(* is worth (Worth, PendingHorizon) while other handlers go on.          *)
(***************************************************************************)
EXTENDS EventDelivery, SequenceFacts

-----------------------------------------------------------------------------
(* The invariant *)

JoinPcs == {"join_enter", "join_lookup", "join_answer"}
SendPcs == {"record", "emit", "ack"}

Missed(t) == {job[t].missed[i] : i \in DOMAIN job[t].missed}

(* The history enters an id once. *)
Distinct == \A i, j \in DOMAIN log : log[i] = log[j] => i = j

(* A handler has its arguments; a live one is in the room once it entered. *)
JobSound(t) ==
  /\ job[t].pc \in JoinPcs =>
       /\ job[t].client \in Clients
       /\ job[t].client \notin resumed => job[t].event = NoEvent
       /\ job[t].alive => job[t].client \in online
  /\ job[t].pc \in {"join_lookup", "join_answer"} /\ job[t].alive => job[t].client \in member
  /\ job[t].pc \in {"join_enter", "join_lookup"} => job[t].missed = <<>>
  /\ job[t].pc \in SendPcs =>
       job[t].event \in Events /\ author[job[t].event] = job[t].client
                               /\ job[t].client # NoClient

JobsSound == \A t \in Threads : JobSound(t)

(* Senders take turns, and every event they send is recorded.              *)
Orderly == "concurrent_sends" \notin Allowed /\ "no_recorder" \notin Allowed

(* Clients nothing is claimed for: those a lookup misled, and, if sending  *)
(* is not orderly, those that named a lastEventID.                         *)
Excused == IF Orderly THEN misled ELSE misled \cup resumed

Has(c, e) == author[e] = c \/ e \in got[c]

(* NoGap or FirstJoinComplete                                              *)
Complete == \A c \in synced \ Excused, e \in Recorded \ withheld : Accounted(c, e)

(* An answer on its way to a client holds whatever is not accounted for.   *)
Worth(t) ==
  (job[t].pc = "join_answer" /\ job[t].alive /\ job[t].client \notin Excused)
    => \A e \in Recorded \ withheld : Accounted(job[t].client, e) \/ e \in Missed(t)

Pending == \A t \in Threads : Worth(t)

(* What is recorded up to and with event l, client c has, or is in S.      *)
Horizon(c, l, S) ==
  \A i, n \in DOMAIN log :
    i <= n /\ log[n] = l /\ log[i] \notin withheld => Has(c, log[i]) \/ log[i] \in S

OneSender == \A t, o \in Threads : Sending(t) /\ Sending(o) => t = o

SentIsRecorded(t) == At(t, "emit") => job[t].event \in Recorded

(* The events that clients name, or will name, are recorded events, and    *)
(* hide nothing from them.                                                 *)
LastHorizon ==
  \A c \in Clients :
    /\ last[c] \in Recorded \cup {NoEvent}
    /\ c \notin misled => Horizon(c, last[c], {})

JoinHorizon(t) ==
  job[t].pc \in {"join_enter", "join_lookup"} =>
    /\ job[t].event \in Recorded \cup {NoEvent}
    /\ job[t].client \notin misled => Horizon(job[t].client, job[t].event, {})

PendingHorizon(t) ==
  job[t].pc = "join_answer" =>
    /\ Missed(t) \subseteq Recorded
    /\ job[t].client \notin misled /\ job[t].missed # <<>> =>
         Horizon(job[t].client, job[t].missed[Len(job[t].missed)], Missed(t))

Informed(t) == SentIsRecorded(t) /\ JoinHorizon(t) /\ PendingHorizon(t)

OrderlyInv ==
  /\ OneSender
  /\ LastHorizon
  /\ \A t \in Threads : Informed(t)

Inv ==
  /\ TypeOK
  /\ Distinct
  /\ JobsSound
  /\ Complete
  /\ Pending
  /\ Orderly => OrderlyInv

-----------------------------------------------------------------------------
(* Handlers                                                                *)

Pcs == {"idle"} \cup JoinPcs \cup SendPcs

(* How another handler's job looks after a step: it may lose its session.  *)
Steady(t) ==
  /\ job'[t].pc = job[t].pc
  /\ job'[t].client = job[t].client
  /\ job'[t].event = job[t].event
  /\ job'[t].missed = job[t].missed
  /\ job'[t].alive => job[t].alive

Others(t) == \A o \in Threads \ {t} : job'[o] = job[o]

(* What is in a job, and how a changed one looks.                          *)
LEMMA JobFields ==
  ASSUME NEW j \in Job
  PROVE  /\ j.pc \in Pcs
         /\ j.client \in Clients \cup {Server, NoClient}
         /\ j.event \in Events \cup {NoEvent}
         /\ j.missed \in Seq(Events)
         /\ j.alive \in BOOLEAN
BY DEF Job, Pcs, JoinPcs, SendPcs

LEMMA IdleJob ==
  /\ Idle \in Job
  /\ Idle.pc = "idle" /\ Idle.client = NoClient /\ Idle.event = NoEvent
  /\ Idle.missed = <<>> /\ Idle.alive = FALSE
<1>1. <<>> \in Seq(Events)
  OBVIOUS
<1>. QED BY <1>1 DEF Idle, Job

LEMMA StartJob ==
  ASSUME job \in [Threads -> Job], NEW t \in Threads, NEW pc \in Pcs,
         NEW c \in Clients \cup {Server}, NEW e \in Events \cup {NoEvent},
         Start(t, pc, c, e)
  PROVE  /\ job' \in [Threads -> Job]
         /\ Others(t)
         /\ job[t].pc = "idle"
         /\ job'[t].pc = pc /\ job'[t].client = c /\ job'[t].event = e
         /\ job'[t].missed = <<>> /\ job'[t].alive = (c # Server)
<1> DEFINE new == [pc |-> pc, client |-> c, event |-> e, missed |-> <<>>, alive |-> c # Server]
<1>1. <<>> \in Seq(Events)
  OBVIOUS
<1>2. new \in Job
  BY <1>1 DEF Job, Pcs, JoinPcs, SendPcs
<1>3. /\ new.pc = pc /\ new.client = c /\ new.event = e
      /\ new.missed = <<>> /\ new.alive = (c # Server)
  OBVIOUS
<1>4. job[t] = Idle /\ job' = [job EXCEPT ![t] = new]
  BY DEF Start
<1> HIDE DEF new
<1>5. job' \in [Threads -> Job] /\ job'[t] = new /\ Others(t)
  BY <1>2, <1>4 DEF Others
<1>. QED BY <1>3, <1>4, <1>5, IdleJob

LEMMA GotoJob ==
  ASSUME job \in [Threads -> Job], NEW t \in Threads, NEW pc \in Pcs, Goto(t, pc)
  PROVE  /\ job' \in [Threads -> Job]
         /\ Others(t)
         /\ job'[t].pc = pc /\ job'[t].client = job[t].client /\ job'[t].event = job[t].event
         /\ job'[t].missed = job[t].missed /\ job'[t].alive = job[t].alive
<1> DEFINE new == [job[t] EXCEPT !.pc = pc]
<1>1. job[t] \in Job
  OBVIOUS
<1>2. /\ new \in Job
      /\ new.pc = pc /\ new.client = job[t].client /\ new.event = job[t].event
      /\ new.missed = job[t].missed /\ new.alive = job[t].alive
  BY <1>1 DEF Job, Pcs, JoinPcs, SendPcs
<1>3. job' = [job EXCEPT ![t] = new]
  BY DEF Goto
<1> HIDE DEF new
<1>4. job' \in [Threads -> Job] /\ job'[t] = new /\ Others(t)
  BY <1>2, <1>3 DEF Others
<1>. QED BY <1>2, <1>4

LEMMA FinishJob ==
  ASSUME job \in [Threads -> Job], NEW t \in Threads, Finish(t)
  PROVE  job' \in [Threads -> Job] /\ Others(t) /\ job'[t] = Idle /\ job'[t].pc = "idle"
BY IdleJob DEF Finish, Others

LEMMA LookupJob ==
  ASSUME job \in [Threads -> Job], NEW t \in Threads, NEW m \in Seq(Events),
         job' = [job EXCEPT ![t].pc = "join_answer", ![t].missed = m]
  PROVE  /\ job' \in [Threads -> Job]
         /\ Others(t)
         /\ job'[t].pc = "join_answer" /\ job'[t].client = job[t].client
         /\ job'[t].event = job[t].event
         /\ job'[t].missed = m /\ job'[t].alive = job[t].alive
<1> DEFINE new == [job[t] EXCEPT !.pc = "join_answer", !.missed = m]
<1>1. job[t] \in Job
  OBVIOUS
<1>2. /\ new \in Job
      /\ new.pc = "join_answer" /\ new.client = job[t].client /\ new.event = job[t].event
      /\ new.missed = m /\ new.alive = job[t].alive
  BY <1>1 DEF Job
<1>3. job' = [job EXCEPT ![t] = new]
  OBVIOUS
<1> HIDE DEF new
<1>4. job' \in [Threads -> Job] /\ job'[t] = new /\ Others(t)
  BY <1>2, <1>3 DEF Others
<1>. QED BY <1>2, <1>4

LEMMA CloseJobs ==
  ASSUME job \in [Threads -> Job], NEW c \in Clients, Close(c)
  PROVE  /\ job' \in [Threads -> Job]
         /\ \A o \in Threads :
              Steady(o) /\ (job'[o].alive => job[o].client # c)
<1>1. job' = [t \in Threads |-> IF job[t].client = c THEN [job[t] EXCEPT !.alive = FALSE]
                                ELSE job[t]]
  BY DEF Close
<1>2. ASSUME NEW o \in Threads
      PROVE  /\ job'[o] \in Job
             /\ Steady(o) /\ (job'[o].alive => job[o].client # c)
  <2>1. job[o] \in Job
    OBVIOUS
  <2>2. CASE job[o].client = c
    <3>1. job'[o] = [job[o] EXCEPT !.alive = FALSE]
      BY <1>1, <2>2
    <3>2. /\ [job[o] EXCEPT !.alive = FALSE] \in Job
          /\ [job[o] EXCEPT !.alive = FALSE].pc = job[o].pc
          /\ [job[o] EXCEPT !.alive = FALSE].client = job[o].client
          /\ [job[o] EXCEPT !.alive = FALSE].event = job[o].event
          /\ [job[o] EXCEPT !.alive = FALSE].missed = job[o].missed
          /\ [job[o] EXCEPT !.alive = FALSE].alive = FALSE
      BY <2>1 DEF Job
    <3>. QED BY <3>1, <3>2 DEF Steady
  <2>3. CASE job[o].client # c
    BY <1>1, <2>1, <2>3 DEF Steady
  <2>. QED BY <2>2, <2>3
<1>3. DOMAIN job' = Threads /\ job' = [o \in Threads |-> job'[o]]
  BY <1>1
<1>. QED BY <1>2, <1>3

LEMMA OthersSteady ==
  ASSUME job \in [Threads -> Job], NEW t \in Threads, Others(t)
  PROVE  \A o \in Threads \ {t} : Steady(o)
BY DEF Others, Steady

-----------------------------------------------------------------------------
(* The history                                                             *)

(* What is in the history stays where it is; new events come behind it.    *)
Grown ==
  /\ \A i \in DOMAIN log : i \in DOMAIN log' /\ log'[i] = log[i]
  /\ \A i \in DOMAIN log' \ DOMAIN log :
       /\ log'[i] \notin Recorded \cup {NoEvent}
       /\ \A j \in DOMAIN log : ~(i <= j)

LEMMA LogElements ==
  ASSUME log \in Seq(Events)
  PROVE  /\ Len(log) \in Nat /\ DOMAIN log = 1..Len(log)
         /\ \A i \in DOMAIN log : log[i] \in Events /\ log[i] \in Recorded
         /\ Recorded \subseteq Events
BY ElementOfSeq, LenProperties DEF Recorded

LEMMA SameLog ==
  ASSUME log \in Seq(Events), Distinct, log' = log
  PROVE  log' \in Seq(Events) /\ Distinct' /\ Grown /\ Recorded' = Recorded
BY DEF Distinct, Grown, Recorded

LEMMA AppendedLog ==
  ASSUME log \in Seq(Events), Distinct, NEW e \in Events,
         log' = IF e \in Recorded THEN log ELSE Append(log, e)
  PROVE  /\ log' \in Seq(Events)
         /\ Distinct'
         /\ Grown
         /\ Recorded' = Recorded \cup {e}
<1>1. CASE e \in Recorded
  BY <1>1, SameLog
<1>2. CASE e \notin Recorded
  <2>1. log' = Append(log, e)
    BY <1>2
  <2>2. /\ log' \in Seq(Events)
        /\ Len(log') = Len(log) + 1
        /\ \A i \in 1..Len(log) : log'[i] = log[i]
        /\ log'[Len(log) + 1] = e
    BY <2>1, AppendProperties
  <2>3. /\ Len(log) \in Nat /\ DOMAIN log = 1..Len(log)
        /\ DOMAIN log' = 1..Len(log) + 1
    BY <2>2, LogElements, LenProperties
  <2>4. ASSUME NEW i \in DOMAIN log'
        PROVE  \/ i \in DOMAIN log /\ log'[i] = log[i]
               \/ i = Len(log) + 1 /\ i \notin DOMAIN log /\ log'[i] = e
    <3>1. i \in 1..Len(log) \/ i = Len(log) + 1
      BY <2>3
    <3>. QED BY <2>2, <2>3, <3>1
  <2>5. Distinct'
    <3>1. \A i \in DOMAIN log : log[i] # e
      BY <1>2 DEF Recorded
    <3>2. SUFFICES ASSUME NEW i \in DOMAIN log', NEW j \in DOMAIN log', log'[i] = log'[j]
                   PROVE  i = j
      BY DEF Distinct
    <3>. QED BY <2>4, <3>1, <3>2 DEF Distinct
  <2>6. Grown
    <3>1. \A i \in DOMAIN log : i \in DOMAIN log' /\ log'[i] = log[i]
      BY <2>2, <2>3
    <3>2. \A j \in DOMAIN log : ~(Len(log) + 1 <= j)
      BY <2>3
    <3>. QED BY <1>2, <2>4, <3>1, <3>2, NullValues DEF Grown
  <2>7. Recorded' = Recorded \cup {e}
    <3>1. Len(log) + 1 \in DOMAIN log' /\ \A i \in DOMAIN log : i \in DOMAIN log'
      BY <2>3
    <3>2. ASSUME NEW x PROVE x \in Recorded' <=> x \in Recorded \/ x = e
      BY <2>2, <2>3, <2>4, <3>1 DEF Recorded
    <3>. QED BY <3>2
  <2>. QED BY <2>2, <2>5, <2>6, <2>7
<1>. QED BY <1>1, <1>2

AfterSet(l) == {After(l)[i] : i \in DOMAIN After(l)}

LEMMA WholeLog ==
  ASSUME NEW l, l \notin Recorded
  PROVE  After(l) = log /\ AfterSet(l) = Recorded
BY DEF After, AfterSet, Recorded

(* What the answer to a recorded event leaves out is up to it in the log.  *)
LEMMA RestOfLog ==
  ASSUME log \in Seq(Events), Distinct, NEW n \in DOMAIN log
  PROVE  /\ After(log[n]) \in Seq(Events)
         /\ \A i \in DOMAIN log : log[i] \in AfterSet(log[n]) <=> ~(i <= n)
         /\ AfterSet(log[n]) \subseteq Recorded
         /\ After(log[n]) # <<>> => After(log[n])[Len(After(log[n]))] = log[Len(log)]
<1> DEFINE s == SubSeq(log, n + 1, Len(log))
<1>1. Len(log) \in Nat /\ DOMAIN log = 1..Len(log) /\ n \in Nat /\ n \in 0..Len(log)
  BY LogElements
<1>2. (CHOOSE i \in DOMAIN log : log[i] = log[n]) = n
  BY DEF Distinct
<1>3. After(log[n]) = s
  BY <1>2, LogElements DEF After
<1>4. /\ s \in Seq(Events)
      /\ Len(s) = Len(log) - n /\ Len(s) \in Nat /\ DOMAIN s = 1..Len(s)
      /\ \A i \in 1..Len(s) : i + n \in n + 1..Len(log) /\ i + n \in 1..Len(log) /\ s[i] = log[i + n]
  BY <1>1, SuffixElements
<1> HIDE DEF s
<1>5. AfterSet(log[n]) = {s[i] : i \in 1..Len(s)}
  BY <1>3, <1>4 DEF AfterSet
<1>6. ASSUME NEW x \in AfterSet(log[n])
      PROVE  \E i \in DOMAIN log : ~(i <= n) /\ x = log[i]
  <2>1. PICK i \in 1..Len(s) : x = s[i]
    BY <1>5
  <2>2. i + n \in DOMAIN log /\ x = log[i + n]
    BY <1>1, <1>4, <2>1
  <2>3. ~(i + n <= n)
    BY <1>1, <1>4
  <2>. QED BY <2>2, <2>3
<1>7. ASSUME NEW i \in DOMAIN log, ~(i <= n)
      PROVE  log[i] \in AfterSet(log[n])
  <2>1. i - n \in 1..Len(s) /\ (i - n) + n = i
    BY <1>1, <1>4, <1>7
  <2>2. s[i - n] = log[i]
    BY <1>4, <2>1
  <2>. QED BY <1>5, <2>1, <2>2
<1>8. AfterSet(log[n]) \subseteq Recorded
  BY <1>6, LogElements
<1>9. ASSUME s # <<>> PROVE s[Len(s)] = log[Len(log)]
  <2>1. Len(s) # 0
    BY <1>4, <1>9, EmptySeq
  <2>2. Len(s) \in 1..Len(s) /\ Len(s) + n = Len(log)
    BY <1>1, <1>4, <2>1
  <2>. QED BY <1>4, <2>2
<1>10. ASSUME NEW i \in DOMAIN log, log[i] \in AfterSet(log[n]) PROVE ~(i <= n)
  <2>1. PICK j \in DOMAIN log : ~(j <= n) /\ log[i] = log[j]
    BY <1>6, <1>10
  <2>. QED BY <2>1 DEF Distinct
<1>. QED BY <1>3, <1>4, <1>7, <1>8, <1>9, <1>10

-----------------------------------------------------------------------------
(* What every step keeps                                                   *)

Base == TypeOK /\ Distinct /\ JobsSound

AuthorKept == \A e \in Events : author[e] # NoClient => author'[e] = author[e]

(* Nothing recorded, received or said about a client is taken back; what a *)
(* member of the room has or will be emitted remains so; and a recorded    *)
(* event is about to be emitted.                                           *)
Kept ==
  /\ Grown
  /\ withheld \subseteq withheld'
  /\ misled \subseteq misled' /\ resumed \subseteq resumed'
  /\ \A c \in Clients, e \in Events : Has(c, e) => Has(c, e)'
  /\ \A c \in member, e \in Events : Accounted(c, e) => Accounted(c, e)'
  /\ \A e \in Recorded' \ withheld' : e \in Recorded \/ OnItsWay(e)'

LEMMA WayKept ==
  ASSUME NEW t \in Threads, Others(t), ~At(t, "emit")
  PROVE  \A e \in Events : OnItsWay(e) => OnItsWay(e)'
BY DEF Others, At, OnItsWay

LEMMA KeptUnlessEmit ==
  ASSUME TypeOK, Grown, AuthorKept,
         withheld \subseteq withheld', misled \subseteq misled', resumed \subseteq resumed',
         \A c \in Clients : got[c] \subseteq got'[c],
         \A e \in Events : OnItsWay(e) => OnItsWay(e)',
         \A e \in Recorded' \ withheld' : e \in Recorded \/ OnItsWay(e)'
  PROVE  Kept
<1>1. \A c \in Clients, e \in Events : Has(c, e) => Has(c, e)'
  BY NullValues DEF Has, AuthorKept
<1>2. \A c \in Clients, e \in Events : Accounted(c, e) => Accounted(c, e)'
  BY NullValues DEF Accounted, AuthorKept
<1>. QED BY <1>1, <1>2 DEF Kept, TypeOK

(* A job is sound after a step that leaves it alone.                       *)
LEMMA SoundKept ==
  ASSUME Base, job' \in [Threads -> Job], AuthorKept, resumed \subseteq resumed',
         NEW o \in Threads, Steady(o),
         job'[o].alive /\ job[o].client \in online => job[o].client \in online',
         job'[o].alive /\ job[o].client \in member => job[o].client \in member'
  PROVE  JobSound(o)'
<1>1. JobSound(o)
  BY DEF Base, JobsSound
<1>2. job[o].pc \in SendPcs => author'[job[o].event] = author[job[o].event]
  BY <1>1 DEF JobSound, AuthorKept
<1>. QED BY <1>1, <1>2 DEF Steady, JobSound

LEMMA IdleSound ==
  ASSUME NEW t \in Threads, job'[t].pc = "idle"
  PROVE  JobSound(t)'
BY DEF JobSound, JoinPcs, SendPcs

(* All jobs are sound if the moving one is, and nothing is taken away.     *)
LEMMA AllSound ==
  ASSUME Base, job' \in [Threads -> Job], AuthorKept, resumed \subseteq resumed',
         online \subseteq online', member \subseteq member',
         NEW t \in Threads, Others(t), JobSound(t)'
  PROVE  JobsSound'
<1>1. \A o \in Threads \ {t} : Steady(o)
  BY OthersSteady DEF Base, TypeOK
<1>2. ASSUME NEW o \in Threads PROVE JobSound(o)'
  BY <1>1, SoundKept
<1>. QED BY <1>2 DEF JobsSound

LEMMA OpenStep ==
  ASSUME Base, NEW c \in Clients, Open(c)
  PROVE  Base' /\ Kept
<1>1. UNCHANGED <<log, member, author, withheld, job, got, last, synced, resumed, misled>>
      /\ online' = online \cup {c}
  BY DEF Open, eventVars, clientVars
<1>2. Grown /\ Distinct' /\ Recorded' = Recorded
  BY <1>1, SameLog DEF Base, TypeOK
<1>3. TypeOK'
  BY <1>1, <1>2 DEF Base, TypeOK
<1>4. JobsSound'
  BY <1>1 DEF Base, JobsSound, JobSound
<1>5. Kept
  <2>1. \A e \in Events : OnItsWay(e) => OnItsWay(e)'
    BY <1>1 DEF OnItsWay, At
  <2>. QED BY <1>1, <1>2, <2>1, KeptUnlessEmit DEF Base, AuthorKept
<1>. QED BY <1>2, <1>3, <1>4, <1>5 DEF Base

LEMMA CloseStep ==
  ASSUME Base, NEW c \in Clients, Close(c)
  PROVE  Base' /\ Kept
<1>1. /\ UNCHANGED <<log, author, withheld, got, last, resumed, misled>>
      /\ online' = online \ {c} /\ member' = member \ {c} /\ synced' = synced \ {c}
  BY DEF Close, eventVars
<1>2. /\ job' \in [Threads -> Job]
      /\ \A o \in Threads : Steady(o) /\ (job'[o].alive => job[o].client # c)
  BY CloseJobs DEF Base, TypeOK
<1>3. Grown /\ Distinct' /\ Recorded' = Recorded
  BY <1>1, SameLog DEF Base, TypeOK
<1>4. TypeOK'
  BY <1>1, <1>2, <1>3 DEF Base, TypeOK
<1>5. JobsSound'
  <2>1. ASSUME NEW o \in Threads PROVE JobSound(o)'
    BY <1>1, <1>2, SoundKept DEF AuthorKept
  <2>. QED BY <2>1 DEF JobsSound
<1>6. Kept
  <2>1. \A e \in Events : OnItsWay(e) => OnItsWay(e)'
    BY <1>2 DEF OnItsWay, At, Steady
  <2>. QED BY <1>1, <1>3, <2>1, KeptUnlessEmit DEF Base, AuthorKept
<1>. QED BY <1>3, <1>4, <1>5, <1>6 DEF Base

(* The steps of a join change no event.                                    *)
LEMMA NoEventStep ==
  ASSUME Base, NEW t \in Threads, Others(t), ~At(t, "emit"), UNCHANGED <<log, author, withheld>>,
         misled \subseteq misled', resumed \subseteq resumed',
         \A c \in Clients : got[c] \subseteq got'[c]
  PROVE  Distinct' /\ Kept /\ AuthorKept /\ Recorded' = Recorded
<1>1. Grown /\ Distinct' /\ Recorded' = Recorded
  BY SameLog DEF Base, TypeOK
<1>2. \A e \in Events : OnItsWay(e) => OnItsWay(e)'
  BY WayKept
<1>3. AuthorKept
  BY DEF AuthorKept
<1>. QED BY <1>1, <1>2, <1>3, KeptUnlessEmit DEF Base

LEMMA JoinBeginStep ==
  ASSUME Base, NEW t \in Threads, NEW c \in Clients, JoinBegin(t, c)
  PROVE  /\ Base' /\ Kept /\ Others(t)
         /\ job'[t].pc = "join_enter" /\ job'[t].client = c /\ job'[t].event = last[c]
<1>1. /\ UNCHANGED <<log, online, member, author, withheld, got, last, synced, misled>>
      /\ resumed' = resumed \cup {d \in {c} : last[d] # NoEvent}
      /\ c \in online /\ Start(t, "join_enter", c, last[c])
  BY DEF JoinBegin, eventVars
<1>2. /\ job' \in [Threads -> Job] /\ Others(t) /\ job[t].pc = "idle"
      /\ job'[t].pc = "join_enter" /\ job'[t].client = c /\ job'[t].event = last[c]
      /\ job'[t].missed = <<>>
  <2>1. /\ job \in [Threads -> Job] /\ "join_enter" \in Pcs
        /\ c \in Clients \cup {Server} /\ last[c] \in Events \cup {NoEvent}
    BY DEF Base, TypeOK, Pcs, JoinPcs
  <2>. QED BY <1>1, <2>1, StartJob
<1>3. resumed \subseteq resumed' /\ (c \notin resumed' => last[c] = NoEvent)
  BY <1>1
<1>4. Distinct' /\ Kept /\ AuthorKept /\ Recorded' = Recorded
  BY <1>1, <1>2, <1>3, NoEventStep DEF At
<1>5. TypeOK'
  BY <1>1, <1>2, <1>4 DEF Base, TypeOK
<1>6. JobSound(t)'
  BY <1>1, <1>2, <1>3 DEF JobSound, JoinPcs, SendPcs
<1>7. JobsSound'
  BY <1>1, <1>2, <1>3, <1>4, <1>6, AllSound
<1>. QED BY <1>2, <1>4, <1>5, <1>7 DEF Base

LEMMA JoinEnterStep ==
  ASSUME Base, NEW t \in Threads, JoinEnter(t)
  PROVE  /\ Base' /\ Kept /\ Others(t)
         /\ \/ /\ job'[t].pc = "join_lookup" /\ job[t].pc = "join_enter"
               /\ job'[t].client = job[t].client /\ job'[t].event = job[t].event
            \/ job'[t].pc = "idle"
<1>1. /\ UNCHANGED <<log, online, author, withheld, got, last, synced, resumed, misled>>
      /\ job[t].pc = "join_enter" /\ "join_lookup" \in Pcs
  BY DEF JoinEnter, eventVars, clientVars, At, Pcs, JoinPcs
<1>2. job \in [Threads -> Job] /\ JobSound(t)
  BY DEF Base, TypeOK, JobsSound
<1>3. CASE job[t].alive
  <2>1. member' = member \cup {job[t].client} /\ Goto(t, "join_lookup")
    BY <1>3 DEF JoinEnter
  <2>2. /\ job' \in [Threads -> Job] /\ Others(t)
        /\ job'[t].pc = "join_lookup" /\ job'[t].client = job[t].client
        /\ job'[t].event = job[t].event /\ job'[t].missed = job[t].missed
        /\ job'[t].alive = job[t].alive
    BY <1>1, <1>2, <2>1, GotoJob
  <2>3. Distinct' /\ Kept /\ AuthorKept /\ Recorded' = Recorded
    BY <1>1, <2>2, NoEventStep DEF At
  <2>4. job[t].client \in online
    BY <1>1, <1>2, <1>3 DEF JobSound, JoinPcs
  <2>5. TypeOK'
    BY <1>1, <2>1, <2>2, <2>3, <2>4 DEF Base, TypeOK
  <2>6. JobSound(t)'
    BY <1>1, <1>2, <2>1, <2>2 DEF JobSound, JoinPcs, SendPcs
  <2>7. JobsSound'
    BY <1>1, <2>1, <2>2, <2>3, <2>6, AllSound
  <2>. QED BY <1>1, <2>2, <2>3, <2>5, <2>7 DEF Base
<1>4. CASE ~job[t].alive
  <2>1. member' = member /\ Finish(t)
    BY <1>4 DEF JoinEnter
  <2>2. job' \in [Threads -> Job] /\ Others(t) /\ job'[t].pc = "idle"
    BY <1>2, <2>1, FinishJob
  <2>3. Distinct' /\ Kept /\ AuthorKept /\ Recorded' = Recorded
    BY <1>1, <2>2, NoEventStep DEF At
  <2>4. TypeOK'
    BY <1>1, <2>1, <2>2, <2>3 DEF Base, TypeOK
  <2>5. JobsSound'
    BY <1>1, <2>1, <2>2, <2>3, IdleSound, AllSound
  <2>. QED BY <2>2, <2>3, <2>4, <2>5 DEF Base
<1>. QED BY <1>3, <1>4

LEMMA AnswerTyped ==
  ASSUME Base, NEW l
  PROVE  After(l) \in Seq(Events) /\ AfterSet(l) \subseteq Recorded
<1>1. CASE l \in Recorded
  <2>1. PICK n \in DOMAIN log : log[n] = l
    BY <1>1 DEF Recorded
  <2>2. log \in Seq(Events) /\ Distinct
    BY DEF Base, TypeOK
  <2>3. After(log[n]) \in Seq(Events) /\ AfterSet(log[n]) \subseteq Recorded
    BY <2>2, RestOfLog
  <2>. QED BY <2>1, <2>3
<1>2. CASE l \notin Recorded
  BY <1>2, WholeLog DEF Base, TypeOK
<1>. QED BY <1>1, <1>2

LEMMA JoinLookupStep ==
  ASSUME Base, NEW t \in Threads, JoinLookup(t)
  PROVE  /\ Base' /\ Kept /\ Others(t) /\ Recorded' = Recorded
         /\ UNCHANGED <<log, author, withheld, got, last, synced, resumed>>
         /\ job[t].pc = "join_lookup" /\ job'[t].pc = "join_answer"
         /\ job'[t].client = job[t].client /\ job'[t].alive = job[t].alive
         /\ Missed(t)' \subseteq Recorded
         /\ job[t].client \notin misled' => job'[t].missed = After(job[t].event)
<1> DEFINE k == Key(job[t].event)
           d == job[t].client
<1>1. /\ UNCHANGED <<log, online, member, author, withheld, got, last, synced, resumed>>
      /\ job[t].pc = "join_lookup"
      /\ job' = [job EXCEPT ![t].pc = "join_answer", ![t].missed = After(k)]
      /\ misled' = misled \cup {c \in {d} : k # job[t].event /\ k \in Recorded}
  BY DEF JoinLookup, eventVars, At
<1>2. job \in [Threads -> Job] /\ JobSound(t) /\ d \in Clients
  BY <1>1 DEF Base, TypeOK, JobsSound, JobSound, JoinPcs
<1>3. /\ job' \in [Threads -> Job] /\ Others(t)
      /\ job'[t].pc = "join_answer" /\ job'[t].client = d
      /\ job'[t].event = job[t].event
      /\ job'[t].missed = After(k) /\ job'[t].alive = job[t].alive
  <2>1. After(k) \in Seq(Events)
    BY AnswerTyped
  <2>. QED BY <1>1, <1>2, <2>1, LookupJob
<1>4. misled \subseteq misled' /\ misled' \subseteq misled \cup {d}
  BY <1>1
<1>5. Distinct' /\ Kept /\ AuthorKept /\ Recorded' = Recorded
  BY <1>1, <1>3, <1>4, NoEventStep DEF At
<1>6. TypeOK'
  BY <1>1, <1>2, <1>3, <1>4, <1>5 DEF Base, TypeOK
<1>7. JobSound(t)'
  BY <1>1, <1>2, <1>3 DEF JobSound, JoinPcs, SendPcs
<1>8. JobsSound'
  BY <1>1, <1>3, <1>5, <1>7, AllSound
<1>9. Missed(t)' \subseteq Recorded
  <2>1. Missed(t)' = AfterSet(k)
    BY <1>3 DEF Missed, AfterSet
  <2>. QED BY <2>1, AnswerTyped
<1>10. ASSUME d \notin misled' PROVE After(k) = After(job[t].event)
  <2>1. k = job[t].event \/ (job[t].event = NoEvent /\ k \notin Recorded)
    BY <1>1, <1>10 DEF Key
  <2>2. CASE k = job[t].event
    BY <2>2
  <2>3. CASE job[t].event = NoEvent /\ k \notin Recorded
    <3>1. NoEvent \notin Recorded
      BY LogElements, NullValues DEF Base, TypeOK
    <3>. QED BY <2>3, <3>1, WholeLog
  <2>. QED BY <2>1, <2>2, <2>3
<1>. QED BY <1>1, <1>3, <1>5, <1>6, <1>8, <1>9, <1>10 DEF Base

LEMMA JoinLookupErrorStep ==
  ASSUME Base, NEW t \in Threads, JoinLookupError(t)
  PROVE  /\ Base' /\ Kept /\ Others(t)
         /\ job'[t].pc = "join_answer" /\ job'[t].client = job[t].client
         /\ job'[t].missed = <<>> /\ job[t].client \in misled'
<1>1. /\ UNCHANGED <<log, online, member, author, withheld, got, last, synced, resumed>>
      /\ job[t].pc = "join_lookup" /\ "join_answer" \in Pcs
      /\ misled' = misled \cup {job[t].client} /\ Goto(t, "join_answer")
  BY DEF JoinLookupError, eventVars, At, Pcs, JoinPcs
<1>2. job \in [Threads -> Job] /\ JobSound(t)
  BY DEF Base, TypeOK, JobsSound
<1>3. /\ job' \in [Threads -> Job] /\ Others(t)
      /\ job'[t].pc = "join_answer" /\ job'[t].client = job[t].client
      /\ job'[t].event = job[t].event
      /\ job'[t].missed = job[t].missed /\ job'[t].alive = job[t].alive
  BY <1>1, <1>2, GotoJob
<1>4. Distinct' /\ Kept /\ AuthorKept /\ Recorded' = Recorded
  BY <1>1, <1>3, NoEventStep DEF At
<1>5. job[t].client \in Clients /\ job[t].missed = <<>>
  BY <1>1, <1>2 DEF JobSound, JoinPcs
<1>6. TypeOK'
  BY <1>1, <1>3, <1>4, <1>5 DEF Base, TypeOK
<1>7. JobSound(t)'
  BY <1>1, <1>2, <1>3 DEF JobSound, JoinPcs, SendPcs
<1>8. JobsSound'
  BY <1>1, <1>3, <1>4, <1>7, AllSound
<1>. QED BY <1>1, <1>3, <1>4, <1>5, <1>6, <1>8 DEF Base

LEMMA JoinAnswerStep ==
  ASSUME Base, NEW t \in Threads, JoinAnswer(t)
  PROVE  /\ Base' /\ Kept /\ Others(t) /\ job'[t].pc = "idle"
         /\ UNCHANGED <<log, author, withheld, misled, resumed>> /\ Recorded' = Recorded
         /\ job[t].pc = "join_answer" /\ job[t].client \in Clients
         /\ \/ /\ job[t].alive
               /\ got' = [got EXCEPT ![job[t].client] = @ \cup Missed(t)]
               /\ last' = [last EXCEPT ![job[t].client] =
                             IF job[t].missed = <<>> THEN @ ELSE job[t].missed[Len(job[t].missed)]]
               /\ synced' = synced \cup {job[t].client}
            \/ UNCHANGED <<got, last, synced>>
<1>1. /\ UNCHANGED <<log, online, member, author, withheld, resumed, misled>>
      /\ job[t].pc = "join_answer"
      /\ Finish(t)
      /\ \/ /\ job[t].alive
            /\ got' = [got EXCEPT ![job[t].client] = @ \cup Missed(t)]
            /\ last' = [last EXCEPT ![job[t].client] =
                          IF job[t].missed = <<>> THEN @ ELSE job[t].missed[Len(job[t].missed)]]
            /\ synced' = synced \cup {job[t].client}
         \/ UNCHANGED <<got, last, synced>>
  BY DEF JoinAnswer, eventVars, At, Missed
<1>2. /\ job \in [Threads -> Job] /\ JobSound(t) /\ job[t].missed \in Seq(Events)
      /\ got \in [Clients -> SUBSET Events] /\ last \in [Clients -> Events \cup {NoEvent}]
  BY JobFields DEF Base, TypeOK, JobsSound
<1>3. job' \in [Threads -> Job] /\ Others(t) /\ job'[t].pc = "idle"
  BY <1>1, <1>2, FinishJob
<1>4. Missed(t) \subseteq Events /\
        (job[t].missed # <<>> => job[t].missed[Len(job[t].missed)] \in Events)
  <2>1. \A i \in DOMAIN job[t].missed : job[t].missed[i] \in Events
    BY <1>2, ElementOfSeq, LenProperties
  <2>2. job[t].missed # <<>> => Len(job[t].missed) \in DOMAIN job[t].missed
    BY <1>2, LenProperties, EmptySeq
  <2>. QED BY <2>1, <2>2 DEF Missed
<1>5. job[t].client \in Clients /\ (job[t].alive => job[t].client \in member)
  BY <1>1, <1>2 DEF JobSound, JoinPcs
<1>6. \A c \in Clients : got[c] \subseteq got'[c]
  BY <1>1, <1>2, <1>5
<1>7. Distinct' /\ Kept /\ AuthorKept /\ Recorded' = Recorded
  BY <1>1, <1>3, <1>6, NoEventStep DEF At
<1>8. got' \in [Clients -> SUBSET Events] /\ last' \in [Clients -> Events \cup {NoEvent}]
  BY <1>1, <1>2, <1>4, <1>5
<1>9. TypeOK'
  BY <1>1, <1>3, <1>5, <1>7, <1>8 DEF Base, TypeOK
<1>10. JobsSound'
  BY <1>1, <1>3, <1>7, IdleSound, AllSound
<1>. QED BY <1>1, <1>3, <1>5, <1>7, <1>9, <1>10 DEF Base

(* The steps of a sender leave the sessions alone.                         *)
SenderKept == UNCHANGED <<online, member, last, synced, resumed, misled>>

LEMMA BeginStep ==
  ASSUME Base, NEW t \in Threads, NEW c \in Clients \cup {Server}, NEW e \in Events,
         author[e] = NoClient \/ author[e] = c,
         Start(t, "record", c, e), author' = [author EXCEPT ![e] = c],
         SenderKept, UNCHANGED <<log, withheld, got>>
  PROVE  Base' /\ Kept /\ Others(t) /\ job'[t].pc = "record"
<1>1. /\ job' \in [Threads -> Job] /\ Others(t) /\ job[t].pc = "idle"
      /\ job'[t].pc = "record" /\ job'[t].client = c /\ job'[t].event = e
  <2>1. job \in [Threads -> Job] /\ "record" \in Pcs /\ e \in Events \cup {NoEvent}
    BY DEF Base, TypeOK, Pcs, SendPcs
  <2>. QED BY <2>1, StartJob
<1>2. Grown /\ Distinct' /\ Recorded' = Recorded
  BY SameLog DEF Base, TypeOK
<1>3. AuthorKept /\ author'[e] = c /\ c # NoClient
      /\ author' \in [Events -> Clients \cup {Server, NoClient}]
  BY NullValues DEF Base, TypeOK, AuthorKept
<1>4. Kept
  <2>1. \A x \in Events : OnItsWay(x) => OnItsWay(x)'
    BY <1>1, WayKept DEF At
  <2>. QED BY <1>2, <1>3, <2>1, KeptUnlessEmit DEF Base, SenderKept
<1>5. TypeOK'
  BY <1>1, <1>2, <1>3 DEF Base, TypeOK, SenderKept
<1>6. JobSound(t)'
  BY <1>1, <1>3 DEF JobSound, JoinPcs, SendPcs
<1>7. JobsSound'
  BY <1>1, <1>3, <1>6, AllSound DEF SenderKept
<1>. QED BY <1>1, <1>2, <1>4, <1>5, <1>7 DEF Base

LEMMA SendBeginStep ==
  ASSUME Base, NEW t \in Threads, NEW c \in Clients, NEW e \in Events, SendBegin(t, c, e)
  PROVE  Base' /\ Kept /\ Others(t) /\ job'[t].pc = "record" /\ SenderKept
<1>1. /\ author[e] = NoClient \/ author[e] = c
      /\ Start(t, "record", c, e) /\ author' = [author EXCEPT ![e] = c]
      /\ SenderKept /\ UNCHANGED <<log, withheld, got>>
  BY DEF SendBegin, SenderKept, clientVars
<1>. QED BY <1>1, BeginStep

LEMMA ServerBeginStep ==
  ASSUME Base, NEW t \in Threads, NEW e \in Events, ServerBegin(t, e)
  PROVE  Base' /\ Kept /\ Others(t) /\ job'[t].pc = "record" /\ SenderKept
<1>1. /\ author[e] = NoClient
      /\ Start(t, "record", Server, e) /\ author' = [author EXCEPT ![e] = Server]
      /\ SenderKept /\ UNCHANGED <<log, withheld, got>>
  BY DEF ServerBegin, SenderKept, clientVars
<1>. QED BY <1>1, BeginStep

LEMMA SendRecordStep ==
  ASSUME Base, NEW t \in Threads, SendRecord(t)
  PROVE  /\ Base' /\ Kept /\ Others(t) /\ SenderKept
         /\ job[t].pc = "record" /\ job'[t].pc = "emit" /\ job'[t].event \in Recorded'
<1>1. /\ UNCHANGED <<online, member, author, withheld, got, last, synced, resumed, misled>>
      /\ job[t].pc = "record" /\ "emit" \in Pcs /\ "record" \in SendPcs
      /\ log' = IF job[t].event \in Recorded THEN log ELSE Append(log, job[t].event)
      /\ Goto(t, "emit")
  BY DEF SendRecord, eventVars, clientVars, At, Pcs, SendPcs
<1>2. /\ job \in [Threads -> Job] /\ JobSound(t) /\ job[t].event \in Events
      /\ log \in Seq(Events) /\ Distinct
  BY <1>1 DEF Base, TypeOK, JobsSound, JobSound
<1>3. /\ job' \in [Threads -> Job] /\ Others(t)
      /\ job'[t].pc = "emit" /\ job'[t].client = job[t].client
      /\ job'[t].event = job[t].event
  BY <1>1, <1>2, GotoJob
<1>4. /\ log' \in Seq(Events) /\ Distinct' /\ Grown
      /\ Recorded' = Recorded \cup {job[t].event}
  BY <1>1, <1>2, AppendedLog
<1>5. Kept /\ AuthorKept
  <2>1. \A x \in Events : OnItsWay(x) => OnItsWay(x)'
    BY <1>1, <1>3, WayKept DEF At
  <2>2. \A x : x = job[t].event => OnItsWay(x)'
    BY <1>3 DEF OnItsWay, At
  <2>3. \A x \in Recorded' \ withheld' : x \in Recorded \/ OnItsWay(x)'
    BY <1>4, <2>2
  <2>. QED BY <1>1, <1>4, <2>1, <2>3, KeptUnlessEmit DEF Base, AuthorKept
<1>6. TypeOK'
  BY <1>1, <1>3, <1>4 DEF Base, TypeOK
<1>7. JobSound(t)'
  BY <1>1, <1>2, <1>3 DEF JobSound, JoinPcs, SendPcs
<1>8. JobsSound'
  BY <1>1, <1>3, <1>5, <1>7, AllSound
<1>. QED BY <1>1, <1>3, <1>4, <1>5, <1>6, <1>8 DEF Base, SenderKept

LEMMA ServerRecordErrorStep ==
  ASSUME Base, NEW t \in Threads, ServerRecordError(t)
  PROVE  Base' /\ Kept /\ Others(t) /\ SenderKept /\ job'[t].pc = "idle"
<1>1. /\ UNCHANGED <<online, member, author, got, last, synced, resumed, misled>>
      /\ job[t].pc = "record" /\ "record" \in SendPcs
      /\ log' = IF job[t].event \in Recorded THEN log ELSE Append(log, job[t].event)
      /\ withheld' = withheld \cup {job[t].event}
      /\ Finish(t)
  BY DEF ServerRecordError, clientVars, At, SendPcs
<1>2. /\ job \in [Threads -> Job] /\ JobSound(t) /\ job[t].event \in Events
      /\ log \in Seq(Events) /\ Distinct
  BY <1>1 DEF Base, TypeOK, JobsSound, JobSound
<1>3. job' \in [Threads -> Job] /\ Others(t) /\ job'[t].pc = "idle"
  BY <1>1, <1>2, FinishJob
<1>4. /\ log' \in Seq(Events) /\ Distinct' /\ Grown
      /\ Recorded' = Recorded \cup {job[t].event}
  BY <1>1, <1>2, AppendedLog
<1>5. Kept /\ AuthorKept
  <2>1. \A x \in Events : OnItsWay(x) => OnItsWay(x)'
    BY <1>1, <1>3, WayKept DEF At
  <2>2. \A x \in Recorded' \ withheld' : x \in Recorded
    BY <1>1, <1>4
  <2>. QED BY <1>1, <1>4, <2>1, <2>2, KeptUnlessEmit DEF Base, AuthorKept
<1>6. TypeOK'
  BY <1>1, <1>3, <1>4 DEF Base, TypeOK
<1>7. JobsSound'
  BY <1>1, <1>3, <1>5, IdleSound, AllSound
<1>. QED BY <1>1, <1>3, <1>4, <1>5, <1>6, <1>7 DEF Base, SenderKept

LEMMA SendUnrecordedStep ==
  ASSUME Base, NEW t \in Threads, SendUnrecorded(t)
  PROVE  Base' /\ Kept /\ Others(t) /\ SenderKept /\ job'[t].pc = "emit"
<1>1. /\ UNCHANGED <<log, online, member, author, withheld, got, last, synced, resumed, misled>>
      /\ job[t].pc = "record" /\ "emit" \in Pcs /\ Goto(t, "emit")
  BY DEF SendUnrecorded, eventVars, clientVars, At, Pcs, SendPcs
<1>2. job \in [Threads -> Job] /\ JobSound(t)
  BY DEF Base, TypeOK, JobsSound
<1>3. /\ job' \in [Threads -> Job] /\ Others(t)
      /\ job'[t].pc = "emit" /\ job'[t].client = job[t].client
      /\ job'[t].event = job[t].event
  BY <1>1, <1>2, GotoJob
<1>4. Distinct' /\ Kept /\ AuthorKept /\ Recorded' = Recorded
  BY <1>1, <1>3, NoEventStep DEF At
<1>5. TypeOK'
  BY <1>1, <1>3, <1>4 DEF Base, TypeOK
<1>6. JobSound(t)'
  BY <1>1, <1>2, <1>3 DEF JobSound, JoinPcs, SendPcs
<1>7. JobsSound'
  BY <1>1, <1>3, <1>4, <1>6, AllSound
<1>. QED BY <1>1, <1>3, <1>4, <1>5, <1>7 DEF Base, SenderKept

(* Who the emit leaves out is its author.                                  *)
LEMMA SendEmitStep ==
  ASSUME Base, NEW t \in Threads, SendEmit(t)
  PROVE  /\ Base' /\ Kept /\ Others(t)
         /\ UNCHANGED <<log, withheld, synced, misled, resumed>> /\ Recorded' = Recorded
         /\ job[t].pc = "emit" /\ job'[t].pc = "ack" /\ job[t].event \in Events
         /\ \A c \in Clients :
              \/ last'[c] = last[c]
              \/ c \in synced /\ last'[c] = job[t].event /\ job[t].event \in got'[c]
<1> DEFINE e == job[t].event
           to == member \ {c \in {job[t].client} : job[t].alive}
<1>1. /\ UNCHANGED <<log, online, member, author, withheld, synced, resumed, misled>>
      /\ job[t].pc = "emit" /\ "emit" \in SendPcs /\ "ack" \in Pcs
      /\ got' = [c \in Clients |-> IF c \in to THEN got[c] \cup {e} ELSE got[c]]
      /\ last' = [c \in Clients |-> IF c \in to \cap synced THEN e ELSE last[c]]
      /\ Goto(t, "ack")
  BY DEF SendEmit, eventVars, At, SendPcs, Pcs
<1>2. /\ job \in [Threads -> Job] /\ JobSound(t) /\ e \in Events
      /\ author[e] = job[t].client
      /\ log \in Seq(Events) /\ Distinct
      /\ got \in [Clients -> SUBSET Events] /\ last \in [Clients -> Events \cup {NoEvent}]
  BY <1>1 DEF Base, TypeOK, JobsSound, JobSound
<1>3. /\ job' \in [Threads -> Job] /\ Others(t)
      /\ job'[t].pc = "ack" /\ job'[t].client = job[t].client
      /\ job'[t].event = e
  BY <1>1, <1>2, GotoJob
<1>4. Grown /\ Distinct' /\ Recorded' = Recorded
  BY <1>1, <1>2, SameLog
<1>5. \A c \in member \ to : author[e] = c
  BY <1>2
<1>6. \A c \in to : c \in Clients
  BY DEF Base, TypeOK
<1> HIDE DEF to
<1>7. /\ got' \in [Clients -> SUBSET Events] /\ last' \in [Clients -> Events \cup {NoEvent}]
      /\ \A c \in Clients : got[c] \subseteq got'[c]
      /\ \A c \in to : e \in got'[c]
  BY <1>1, <1>2, <1>6
<1>8. \A c \in Clients :
        \/ last'[c] = last[c]
        \/ c \in synced /\ last'[c] = e /\ e \in got'[c]
  BY <1>1, <1>7
<1>9. Kept
  <2>1. \A c \in Clients, x \in Events : Has(c, x) => Has(c, x)'
    BY <1>1, <1>7 DEF Has
  <2>2. ASSUME NEW c \in member, NEW x \in Events, Accounted(c, x)
        PROVE  Accounted(c, x)'
    <3>1. c \in Clients
      BY DEF Base, TypeOK
    <3>2. CASE Has(c, x)
      BY <2>1, <3>1, <3>2 DEF Has, Accounted
    <3>3. CASE OnItsWay(x)
      <4>1. PICK o \in Threads : job[o].event = x /\ job[o].pc = "emit"
        BY <3>3 DEF OnItsWay, At
      <4>2. CASE o # t
        BY <1>3, <4>1, <4>2 DEF Others, Accounted, OnItsWay, At
      <4>3. CASE o = t
        <5>1. c \in to \/ author[e] = c
          BY <1>5
        <5>. QED BY <1>1, <1>7, <4>1, <4>3, <5>1 DEF Accounted
      <4>. QED BY <4>2, <4>3
    <3>. QED BY <2>2, <3>2, <3>3 DEF Has, Accounted
  <2>. QED BY <1>1, <1>4, <2>1, <2>2 DEF Kept
<1>10. TypeOK'
  BY <1>1, <1>3, <1>4, <1>7 DEF Base, TypeOK
<1>11. JobSound(t)'
  BY <1>1, <1>2, <1>3 DEF JobSound, JoinPcs, SendPcs
<1>12. JobsSound'
  BY <1>1, <1>3, <1>11, AllSound DEF AuthorKept
<1>. QED BY <1>1, <1>2, <1>3, <1>4, <1>8, <1>9, <1>10, <1>12 DEF Base

LEMMA SendAckStep ==
  ASSUME Base, NEW t \in Threads, SendAck(t)
  PROVE  Base' /\ Kept /\ Others(t) /\ SenderKept /\ job'[t].pc = "idle"
<1>1. /\ UNCHANGED <<log, online, member, author, withheld, last, synced, resumed, misled>>
      /\ job[t].pc = "ack" /\ "ack" \in SendPcs
      /\ Finish(t)
      /\ \/ got' = [got EXCEPT ![job[t].client] = @ \cup {job[t].event}]
         \/ UNCHANGED got
  BY DEF SendAck, eventVars, At, SendPcs
<1>2. /\ job \in [Threads -> Job] /\ JobSound(t) /\ job[t].event \in Events
      /\ got \in [Clients -> SUBSET Events]
  BY <1>1 DEF Base, TypeOK, JobsSound, JobSound
<1>3. job' \in [Threads -> Job] /\ Others(t) /\ job'[t].pc = "idle"
  BY <1>1, <1>2, FinishJob
<1>4. got' \in [Clients -> SUBSET Events] /\ \A c \in Clients : got[c] \subseteq got'[c]
  BY <1>1, <1>2
<1>5. Distinct' /\ Kept /\ AuthorKept /\ Recorded' = Recorded
  BY <1>1, <1>3, <1>4, NoEventStep DEF At
<1>6. TypeOK'
  BY <1>1, <1>3, <1>4, <1>5 DEF Base, TypeOK
<1>7. JobsSound'
  BY <1>1, <1>3, <1>5, IdleSound, AllSound
<1>. QED BY <1>1, <1>3, <1>5, <1>6, <1>7 DEF Base, SenderKept

-----------------------------------------------------------------------------
(* What a step keeps of the promises made about events                     *)

LEMMA CompleteKept ==
  ASSUME Base, Base', Kept, Complete, synced' \subseteq synced
  PROVE  Complete'
<1>1. SUFFICES ASSUME NEW c \in synced', c \notin Excused', NEW e \in Recorded' \ withheld'
               PROVE  Accounted(c, e)'
  BY DEF Complete
<1>2. c \in synced \ Excused /\ c \in member
  BY <1>1 DEF Excused, Kept, Base, TypeOK
<1>3. CASE e \in Recorded
  <2>1. e \in Recorded \ withheld /\ e \in Events
    BY <1>1, <1>3, LogElements DEF Kept, Base, TypeOK
  <2>. QED BY <1>2, <2>1 DEF Complete, Kept
<1>4. CASE OnItsWay(e)'
  BY <1>4 DEF Accounted
<1>. QED BY <1>1, <1>3, <1>4 DEF Kept

LEMMA WorthKept ==
  ASSUME Base, Kept, NEW o \in Threads, Worth(o), Steady(o)
  PROVE  Worth(o)'
<1>1. SUFFICES ASSUME job'[o].pc = "join_answer", job'[o].alive, job'[o].client \notin Excused',
                      NEW e \in Recorded' \ withheld'
               PROVE  \A c : c = job'[o].client => Accounted(c, e)' \/ e \in Missed(o)'
  BY DEF Worth, Accounted, Missed
<1>2. /\ job[o].pc = "join_answer" /\ job[o].alive /\ job'[o].client = job[o].client
      /\ Missed(o)' = Missed(o)
  BY <1>1 DEF Steady, Missed
<1>3. job[o].client \notin Excused /\ job[o].client \in member
  BY <1>1, <1>2 DEF Excused, Kept, Base, JobsSound, JobSound
<1>4. CASE e \in Recorded
  <2>1. e \in Recorded \ withheld /\ e \in Events
    BY <1>1, <1>4, LogElements DEF Kept, Base, TypeOK
  <2>2. Accounted(job[o].client, e) \/ e \in Missed(o)
    BY <1>2, <1>3, <2>1 DEF Worth
  <2>. QED BY <1>2, <1>3, <2>1, <2>2 DEF Kept
<1>5. CASE OnItsWay(e)'
  BY <1>5 DEF Accounted
<1>. QED BY <1>1, <1>4, <1>5 DEF Kept

(* What is up to a recorded event in the log stays as it is.               *)
LEMMA HorizonKept ==
  ASSUME Base, Kept, NEW c \in Clients, NEW l \in Recorded \cup {NoEvent}, NEW S,
         Horizon(c, l, S)
  PROVE  \A i, n \in DOMAIN log' :
           i <= n /\ log'[n] = l /\ log'[i] \notin withheld' =>
             author'[log'[i]] = c \/ log'[i] \in got'[c] \/ log'[i] \in S
<1>1. SUFFICES ASSUME NEW i \in DOMAIN log', NEW n \in DOMAIN log',
                      i <= n, log'[n] = l, log'[i] \notin withheld'
               PROVE  author'[log'[i]] = c \/ log'[i] \in got'[c] \/ log'[i] \in S
  OBVIOUS
<1>2. n \in DOMAIN log /\ log[n] = l
  BY <1>1 DEF Kept, Grown
<1>3. i \in DOMAIN log /\ log'[i] = log[i] /\ log[i] \in Events /\ log[i] \notin withheld
  BY <1>1, <1>2, LogElements DEF Kept, Grown, Base, TypeOK
<1>4. Has(c, log[i]) \/ log[i] \in S
  BY <1>1, <1>2, <1>3 DEF Horizon
<1>5. \A e \in Events : Has(c, e) => author'[e] = c \/ e \in got'[c]
  BY DEF Kept, Has
<1>. QED BY <1>3, <1>4, <1>5

LEMMA RecordedKept ==
  ASSUME Kept
  PROVE  Recorded \subseteq Recorded'
BY DEF Kept, Grown, Recorded

LEMMA LastKept ==
  ASSUME Base, Kept, LastHorizon, last' = last
  PROVE  LastHorizon'
<1>1. SUFFICES ASSUME NEW c \in Clients
               PROVE  /\ last'[c] \in Recorded' \cup {NoEvent}
                      /\ c \notin misled' => Horizon(c, last[c], {})'
  BY DEF LastHorizon
<1>2. last[c] \in Recorded \cup {NoEvent} /\ (c \notin misled => Horizon(c, last[c], {}))
  BY DEF LastHorizon
<1>3. ASSUME c \notin misled' PROVE Horizon(c, last[c], {})'
  <2>1. Horizon(c, last[c], {})
    BY <1>2, <1>3 DEF Kept
  <2>. QED BY <1>2, <2>1, HorizonKept DEF Horizon, Has
<1>. QED BY <1>2, <1>3, RecordedKept

LEMMA JoinHorizonKept ==
  ASSUME Base, Kept, NEW o \in Threads, JoinHorizon(o),
         job'[o].pc \in {"join_enter", "join_lookup"} =>
           /\ job[o].pc \in {"join_enter", "join_lookup"}
           /\ job'[o].client = job[o].client /\ job'[o].event = job[o].event
  PROVE  JoinHorizon(o)'
<1>1. SUFFICES ASSUME job'[o].pc \in {"join_enter", "join_lookup"}
               PROVE  /\ job'[o].event \in Recorded' \cup {NoEvent}
                      /\ job'[o].client \notin misled' => Horizon(job[o].client, job[o].event, {})'
  BY DEF JoinHorizon
<1>2. /\ job[o].pc \in {"join_enter", "join_lookup"}
      /\ job'[o].client = job[o].client /\ job'[o].event = job[o].event
  BY <1>1
<1>3. /\ job[o].event \in Recorded \cup {NoEvent}
      /\ job[o].client \notin misled => Horizon(job[o].client, job[o].event, {})
  BY <1>2 DEF JoinHorizon
<1>4. job[o].client \in Clients
  BY <1>2 DEF Base, JobsSound, JobSound, JoinPcs
<1>5. ASSUME job'[o].client \notin misled' PROVE Horizon(job[o].client, job[o].event, {})'
  <2>1. Horizon(job[o].client, job[o].event, {})
    BY <1>2, <1>3, <1>5 DEF Kept
  <2>. QED BY <1>2, <1>3, <1>4, <2>1, HorizonKept DEF Horizon, Has
<1>. QED BY <1>2, <1>3, <1>5, RecordedKept

LEMMA PendingHorizonKept ==
  ASSUME Base, Kept, NEW o \in Threads, PendingHorizon(o), Steady(o)
  PROVE  PendingHorizon(o)'
<1> DEFINE l == job[o].missed[Len(job[o].missed)]
<1>1. SUFFICES ASSUME job'[o].pc = "join_answer"
               PROVE  /\ Missed(o)' \subseteq Recorded'
                      /\ job'[o].client \notin misled' /\ job'[o].missed # <<>> =>
                           Horizon(job[o].client, l, Missed(o))'
  BY DEF PendingHorizon
<1>2. /\ job[o].pc = "join_answer" /\ job'[o].client = job[o].client
      /\ job'[o].missed = job[o].missed /\ Missed(o)' = Missed(o)
  BY <1>1 DEF Steady, Missed
<1>3. /\ Missed(o) \subseteq Recorded
      /\ job[o].client \notin misled /\ job[o].missed # <<>> => Horizon(job[o].client, l, Missed(o))
  BY <1>2 DEF PendingHorizon
<1>4. job[o].client \in Clients /\ job[o].missed \in Seq(Events)
  BY <1>2, JobFields DEF Base, JobsSound, JobSound, JoinPcs, TypeOK
<1>5. ASSUME job'[o].client \notin misled', job'[o].missed # <<>>
      PROVE  Horizon(job[o].client, l, Missed(o))'
  <2>1. Horizon(job[o].client, l, Missed(o))
    BY <1>2, <1>3, <1>5 DEF Kept
  <2>2. l \in Recorded \cup {NoEvent}
    <3>1. Len(job[o].missed) \in DOMAIN job[o].missed
      BY <1>2, <1>4, <1>5, LenProperties, EmptySeq
    <3>. QED BY <1>3, <3>1 DEF Missed
  <2>3. \A i, n \in DOMAIN log' :
           i <= n /\ log'[n] = l /\ log'[i] \notin withheld' =>
             \/ author'[log'[i]] = job[o].client \/ log'[i] \in got'[job[o].client]
             \/ log'[i] \in Missed(o)
    BY <1>4, <2>1, <2>2, HorizonKept
  <2>. QED BY <1>2, <2>3 DEF Horizon, Has
<1>. QED BY <1>2, <1>3, <1>5, RecordedKept

LEMMA InformedKept ==
  ASSUME Base, Kept, NEW o \in Threads, Informed(o), Steady(o)
  PROVE  Informed(o)'
<1>1. JoinHorizon(o)'
  BY JoinHorizonKept DEF Informed, Steady
<1>2. PendingHorizon(o)'
  BY PendingHorizonKept DEF Informed
<1>3. SentIsRecorded(o)'
  BY RecordedKept DEF Informed, SentIsRecorded, Steady, At
<1>. QED BY <1>1, <1>2, <1>3 DEF Informed

-----------------------------------------------------------------------------
(* The invariant holds                                                     *)

LEMMA InvBase == Inv => Base
BY DEF Inv, Base

LEMMA StepInv ==
  ASSUME Inv, Base', Kept, Complete',
         \A o \in Threads : Steady(o) \/ Worth(o)',
         Orderly => OneSender' /\ LastHorizon' /\ \A o \in Threads : Steady(o) \/ Informed(o)'
  PROVE  Inv'
<1>1. Base
  BY InvBase
<1>2. \A o \in Threads : Worth(o)'
  BY <1>1, WorthKept DEF Inv, Pending
<1>3. ASSUME Orderly PROVE OrderlyInv'
  <2>1. \A o \in Threads : Informed(o)
    BY <1>3 DEF Inv, OrderlyInv
  <2>2. \A o \in Threads : Informed(o)'
    BY <1>1, <1>3, <2>1, InformedKept
  <2>. QED BY <1>3, <2>2 DEF OrderlyInv
<1>. QED BY <1>2, <1>3 DEF Inv, Base, Pending, Orderly

(* Steps in which no client is answered or sent anything.                  *)
LEMMA QuietInv ==
  ASSUME Inv, Base', Kept, NEW t \in Threads, Others(t), synced' = synced, last' = last, Worth(t)',
         Orderly => Informed(t)',
         Sending(t)' => Sending(t) \/ ~Orderly \/ \A o \in Threads : ~Sending(o)
  PROVE  Inv'
<1>1. Base
  BY InvBase
<1>2. \A o \in Threads \ {t} : Steady(o)
  BY <1>1, OthersSteady DEF Base, TypeOK
<1>3. Complete'
  BY <1>1, CompleteKept DEF Inv
<1>4. ASSUME Orderly PROVE OneSender' /\ LastHorizon'
  <2>1. OneSender'
    BY <1>2, <1>4 DEF Inv, OrderlyInv, OneSender, Sending, Steady
  <2>2. LastHorizon'
    BY <1>1, <1>4, LastKept DEF Inv, OrderlyInv
  <2>. QED BY <2>1, <2>2
<1>. QED BY <1>2, <1>3, <1>4, StepInv

(* A handler that is neither joining nor about to emit holds no promise.   *)
LEMMA NothingPromised ==
  ASSUME NEW t \in Threads, job'[t].pc \in {"idle", "record", "ack"}
  PROVE  Worth(t)' /\ Informed(t)'
BY DEF Worth, Informed, SentIsRecorded, JoinHorizon, PendingHorizon, At

LEMMA OpenInv ==
  ASSUME Inv, NEW c \in Clients, Open(c)
  PROVE  Inv'
<1>1. Base /\ Base' /\ Kept
  BY InvBase, OpenStep
<1>2. UNCHANGED <<job, last, synced>>
  BY DEF Open, clientVars
<1>3. \A o \in Threads : Steady(o)
  BY <1>2 DEF Steady
<1>4. Complete'
  BY <1>1, <1>2, CompleteKept DEF Inv
<1>5. Orderly => OneSender' /\ LastHorizon'
  BY <1>1, <1>2, LastKept DEF Inv, OrderlyInv, OneSender, Sending
<1>. QED BY <1>1, <1>3, <1>4, <1>5, StepInv

LEMMA CloseInv ==
  ASSUME Inv, NEW c \in Clients, Close(c)
  PROVE  Inv'
<1>1. Base /\ Base' /\ Kept
  BY InvBase, CloseStep
<1>2. last' = last /\ synced' \subseteq synced
  BY DEF Close
<1>3. \A o \in Threads : Steady(o)
  BY <1>1, CloseJobs DEF Base, TypeOK
<1>4. Complete'
  BY <1>1, <1>2, CompleteKept DEF Inv
<1>5. Orderly => OneSender' /\ LastHorizon'
  BY <1>1, <1>2, <1>3, LastKept DEF Inv, OrderlyInv, OneSender, Sending, Steady
<1>. QED BY <1>1, <1>3, <1>4, <1>5, StepInv

LEMMA JoinBeginInv ==
  ASSUME Inv, NEW t \in Threads, NEW c \in Clients, JoinBegin(t, c)
  PROVE  Inv'
<1>1. /\ Base /\ Base' /\ Kept /\ Others(t)
      /\ job'[t].pc = "join_enter" /\ job'[t].client = c /\ job'[t].event = last[c]
  BY InvBase, JoinBeginStep
<1>2. UNCHANGED <<last, synced>>
  BY DEF JoinBegin
<1>3. Worth(t)' /\ SentIsRecorded(t)' /\ PendingHorizon(t)' /\ ~Sending(t)'
  BY <1>1 DEF Worth, SentIsRecorded, PendingHorizon, At, Sending
<1>4. ASSUME Orderly PROVE JoinHorizon(t)'
  <2>1. LastHorizon'
    BY <1>1, <1>2, <1>4, LastKept DEF Inv, OrderlyInv
  <2>2. last'[c] = last[c]
    BY <1>2
  <2>3. /\ job'[t].event \in Recorded' \cup {NoEvent}
        /\ c \notin misled' => Horizon(c, last[c], {})'
    BY <1>1, <2>1, <2>2 DEF LastHorizon
  <2>. QED BY <1>1, <1>2, <2>3 DEF JoinHorizon, Horizon
<1>. QED BY <1>1, <1>2, <1>3, <1>4, QuietInv DEF Informed

LEMMA JoinEnterInv ==
  ASSUME Inv, NEW t \in Threads, JoinEnter(t)
  PROVE  Inv'
<1>1. /\ Base /\ Base' /\ Kept /\ Others(t)
      /\ \/ /\ job'[t].pc = "join_lookup" /\ job[t].pc = "join_enter"
            /\ job'[t].client = job[t].client /\ job'[t].event = job[t].event
         \/ job'[t].pc = "idle"
  BY InvBase, JoinEnterStep
<1>2. UNCHANGED <<last, synced>>
  BY DEF JoinEnter, clientVars
<1>3. Worth(t)' /\ SentIsRecorded(t)' /\ PendingHorizon(t)' /\ ~Sending(t)'
  BY <1>1 DEF Worth, SentIsRecorded, PendingHorizon, At, Sending
<1>4. ASSUME Orderly PROVE JoinHorizon(t)'
  <2>1. JoinHorizon(t)
    BY <1>4 DEF Inv, OrderlyInv, Informed
  <2>. QED BY <1>1, <2>1, JoinHorizonKept
<1>. QED BY <1>1, <1>2, <1>3, <1>4, QuietInv DEF Informed

(* What the handler reads from the history is what its client may not have. *)
LEMMA JoinLookupInv ==
  ASSUME Inv, NEW t \in Threads, JoinLookup(t)
  PROVE  Inv'
<1> DEFINE c == job[t].client
           l == job[t].event
<1>1. /\ Base /\ Base' /\ Kept /\ Others(t) /\ Recorded' = Recorded
      /\ UNCHANGED <<log, author, withheld, got, last, synced, resumed>>
      /\ job[t].pc = "join_lookup" /\ job'[t].pc = "join_answer"
      /\ job'[t].client = c /\ job'[t].alive = job[t].alive
      /\ Missed(t)' \subseteq Recorded
      /\ c \notin misled' => job'[t].missed = After(l)
  BY InvBase, JoinLookupStep
<1>2. SentIsRecorded(t)' /\ JoinHorizon(t)' /\ ~Sending(t)'
  BY <1>1 DEF SentIsRecorded, JoinHorizon, At, Sending
<1>3. /\ log \in Seq(Events) /\ Distinct /\ JobSound(t) /\ NoEvent \notin Recorded
      /\ c \in Clients
  BY <1>1, LogElements, NullValues DEF Base, TypeOK, JobsSound, JobSound, JoinPcs
<1>4. c \notin resumed => l = NoEvent
  BY <1>1, <1>3 DEF JobSound, JoinPcs
<1>5. ASSUME Orderly
      PROVE  l \in Recorded \cup {NoEvent} /\ (c \notin misled => Horizon(c, l, {}))
  BY <1>1, <1>5 DEF Inv, OrderlyInv, Informed, JoinHorizon
<1>6. CASE c \in misled'
  <2>1. Worth(t)' /\ PendingHorizon(t)'
    BY <1>1, <1>6 DEF Worth, PendingHorizon, Excused
  <2>. QED BY <1>1, <1>2, <2>1, QuietInv DEF Informed
<1>7. ASSUME c \notin misled'
      PROVE  job'[t].missed = After(l) /\ Missed(t)' = AfterSet(l) /\ c \notin misled
  BY <1>1, <1>7 DEF Missed, AfterSet, Kept
<1>8. CASE c \notin misled' /\ l \in Recorded
  <2>1. PICK k \in DOMAIN log : log[k] = l
    BY <1>8 DEF Recorded
  <2>2. /\ \A i \in DOMAIN log : log[i] \in AfterSet(l) <=> ~(i <= k)
        /\ After(l) # <<>> => After(l)[Len(After(l))] = log[Len(log)]
    BY <1>3, <2>1, RestOfLog
  <2>3. ASSUME c \notin Excused, NEW i \in DOMAIN log, log[i] \notin withheld
        PROVE  Has(c, log[i]) \/ log[i] \in AfterSet(l)
    <3>1. Orderly
      BY <1>3, <1>4, <1>8, <2>3 DEF Excused
    <3>2. Horizon(c, l, {})
      BY <1>5, <2>3, <3>1 DEF Excused
    <3>. QED BY <2>1, <2>2, <2>3, <3>2 DEF Horizon
  <2>4. Worth(t)'
    <3>1. c \notin Excused' => c \notin Excused
      BY <1>1 DEF Excused, Kept
    <3>. QED BY <1>1, <1>7, <1>8, <2>3, <3>1 DEF Worth, Has, Accounted, Recorded
  <2>5. ASSUME Orderly PROVE PendingHorizon(t)'
    <3>1. c \notin Excused
      BY <1>7, <1>8, <2>5 DEF Excused
    <3>. QED BY <1>1, <1>7, <1>8, <2>3, <3>1 DEF PendingHorizon, Horizon, Has
  <2>. QED BY <1>1, <1>2, <2>4, <2>5, QuietInv DEF Informed
<1>9. CASE c \notin misled' /\ l \notin Recorded
  <2>1. AfterSet(l) = Recorded
    BY <1>9, WholeLog
  <2>2. Worth(t)'
    BY <1>1, <1>7, <1>9, <2>1 DEF Worth
  <2>3. \A i \in DOMAIN log : log[i] \in Missed(t)'
    BY <1>3, <1>7, <1>9, <2>1, LogElements
  <2>4. PendingHorizon(t)'
    BY <1>1, <2>3 DEF PendingHorizon, Horizon
  <2>. QED BY <1>1, <1>2, <2>2, <2>4, QuietInv DEF Informed
<1>. QED BY <1>6, <1>8, <1>9

LEMMA JoinLookupErrorInv ==
  ASSUME Inv, NEW t \in Threads, JoinLookupError(t)
  PROVE  Inv'
<1>1. /\ Base /\ Base' /\ Kept /\ Others(t)
      /\ job'[t].pc = "join_answer" /\ job'[t].client = job[t].client
      /\ job'[t].missed = <<>> /\ job[t].client \in misled'
  BY InvBase, JoinLookupErrorStep
<1>2. UNCHANGED <<last, synced>>
  BY DEF JoinLookupError
<1>3. Worth(t)' /\ SentIsRecorded(t)' /\ JoinHorizon(t)' /\ ~Sending(t)'
  BY <1>1 DEF Worth, SentIsRecorded, JoinHorizon, At, Sending, Excused
<1>4. PendingHorizon(t)'
  <2>1. Missed(t)' = {}
    BY <1>1 DEF Missed
  <2>. QED BY <1>1, <2>1 DEF PendingHorizon
<1>. QED BY <1>1, <1>2, <1>3, <1>4, QuietInv DEF Informed

LEMMA JoinAnswerInv ==
  ASSUME Inv, NEW t \in Threads, JoinAnswer(t)
  PROVE  Inv'
<1> DEFINE d == job[t].client
           m == job[t].missed
<1>1. /\ Base /\ Base' /\ Kept /\ Others(t) /\ job'[t].pc = "idle"
      /\ UNCHANGED <<log, author, withheld, misled, resumed>> /\ Recorded' = Recorded
      /\ job[t].pc = "join_answer" /\ d \in Clients
      /\ \/ /\ job[t].alive
            /\ got' = [got EXCEPT ![d] = @ \cup Missed(t)]
            /\ last' = [last EXCEPT ![d] = IF m = <<>> THEN @ ELSE m[Len(m)]]
            /\ synced' = synced \cup {d}
         \/ UNCHANGED <<got, last, synced>>
  BY InvBase, JoinAnswerStep
<1>2. Worth(t)' /\ Informed(t)' /\ ~Sending(t)'
  BY <1>1, NothingPromised DEF Sending
<1>3. CASE UNCHANGED <<last, synced>>
  BY <1>1, <1>2, <1>3, QuietInv
<1>4. CASE /\ job[t].alive
           /\ got' = [got EXCEPT ![d] = @ \cup Missed(t)]
           /\ last' = [last EXCEPT ![d] = IF m = <<>> THEN @ ELSE m[Len(m)]]
           /\ synced' = synced \cup {d}
  <2>1. /\ got \in [Clients -> SUBSET Events] /\ last \in [Clients -> Events \cup {NoEvent}]
        /\ m \in Seq(Events)
    BY <1>1, JobFields DEF Base, TypeOK
  <2>2. got'[d] = got[d] \cup Missed(t) /\ (last'[d] = IF m = <<>> THEN last[d] ELSE m[Len(m)])
        /\ \A c \in Clients \ {d} : last'[c] = last[c]
    BY <1>1, <1>4, <2>1
  <2>3. \A o \in Threads \ {t} : Steady(o)
    BY <1>1, OthersSteady DEF Base, TypeOK
  <2>4. Complete'
    <3>1. SUFFICES ASSUME NEW c \in synced', c \notin Excused', NEW e \in Recorded' \ withheld'
                   PROVE  Accounted(c, e)'
      BY DEF Complete
    <3>2. c \notin Excused /\ e \in Recorded \ withheld /\ e \in Events
      BY <1>1, <3>1, LogElements DEF Excused, Base, TypeOK
    <3>3. CASE c \in synced
      <4>1. c \in member /\ Accounted(c, e)
        BY <3>2, <3>3 DEF Inv, Complete, TypeOK
      <4>. QED BY <1>1, <3>2, <4>1 DEF Kept
    <3>4. CASE c = d
      <4>1. d \in member
        BY <1>1, <1>4 DEF Base, JobsSound, JobSound
      <4>2. Accounted(d, e) \/ e \in Missed(t)
        BY <1>1, <1>4, <3>2, <3>4 DEF Inv, Pending, Worth
      <4>3. CASE Accounted(d, e)
        BY <1>1, <3>2, <3>4, <4>1, <4>3 DEF Kept
      <4>4. CASE e \in Missed(t)
        BY <2>2, <3>4, <4>4 DEF Accounted
      <4>. QED BY <4>2, <4>3, <4>4
    <3>. QED BY <1>4, <3>1, <3>3, <3>4
  <2>5. ASSUME Orderly PROVE OneSender' /\ LastHorizon'
    <3>1. OneSender'
      BY <1>2, <2>3, <2>5 DEF Inv, OrderlyInv, OneSender, Sending, Steady
    <3>2. PendingHorizon(t) /\ LastHorizon
      BY <2>5 DEF Inv, OrderlyInv, Informed
    <3>3. ASSUME NEW c \in Clients, last'[c] = last[c]
          PROVE  /\ last'[c] \in Recorded' \cup {NoEvent}
                 /\ c \notin misled' => Horizon(c, last[c], {})'
      <4>1. last[c] \in Recorded \cup {NoEvent} /\ (c \notin misled => Horizon(c, last[c], {}))
        BY <3>2 DEF LastHorizon
      <4>2. ASSUME c \notin misled' PROVE Horizon(c, last[c], {})'
        <5>1. Horizon(c, last[c], {})
          BY <1>1, <4>1, <4>2
        <5>. QED BY <1>1, <3>3, <4>1, <5>1, HorizonKept DEF Horizon, Has
      <4>. QED BY <1>1, <3>3, <4>1, <4>2
    <3>4. ASSUME m # <<>>
          PROVE  /\ last'[d] \in Recorded' \cup {NoEvent}
                 /\ d \notin misled' => \A c : c = d => Horizon(c, last[c], {})'
      <4>1. last'[d] = m[Len(m)]
        BY <2>2, <3>4
      <4>2. Len(m) \in DOMAIN m
        BY <2>1, <3>4, LenProperties, EmptySeq
      <4>3. Missed(t) \subseteq Recorded /\ m[Len(m)] \in Recorded
        BY <1>1, <3>2, <4>2 DEF PendingHorizon, Missed
      <4>4. ASSUME d \notin misled', NEW c, c = d PROVE Horizon(c, last[c], {})'
        <5>1. Horizon(d, m[Len(m)], Missed(t))
          BY <1>1, <3>2, <3>4, <4>4 DEF PendingHorizon
        <5>2. \A i, n \in DOMAIN log' :
                i <= n /\ log'[n] = m[Len(m)] /\ log'[i] \notin withheld' =>
                  author'[log'[i]] = d \/ log'[i] \in got'[d] \/ log'[i] \in Missed(t)
          BY <1>1, <4>3, <5>1, HorizonKept
        <5>. QED BY <2>2, <4>1, <4>4, <5>2 DEF Horizon, Has
      <4>. QED BY <1>1, <4>1, <4>3, <4>4
    <3>5. ASSUME NEW c \in Clients
          PROVE  /\ last'[c] \in Recorded' \cup {NoEvent}
                 /\ c \notin misled' => Horizon(c, last[c], {})'
      <4>1. CASE c = d /\ m # <<>>
        BY <3>4, <4>1
      <4>2. CASE ~(c = d /\ m # <<>>)
        <5>1. last'[c] = last[c]
          BY <2>2, <4>2
        <5>. QED BY <3>3, <5>1
      <4>. QED BY <4>1, <4>2
    <3>. QED BY <3>1, <3>5 DEF LastHorizon
  <2>6. \A o \in Threads : Steady(o) \/ (Worth(o)' /\ Informed(o)')
    BY <1>2, <2>3
  <2>. QED BY <1>1, <2>4, <2>5, <2>6, StepInv
<1>. QED BY <1>1, <1>3, <1>4

LEMMA SendBeginInv ==
  ASSUME Inv, NEW t \in Threads, NEW c \in Clients, NEW e \in Events, SendBegin(t, c, e)
  PROVE  Inv'
<1>1. Base' /\ Kept /\ Others(t) /\ job'[t].pc = "record" /\ SenderKept
  BY InvBase, SendBeginStep
<1>2. ~Orderly \/ \A o \in Threads : ~Sending(o)
  BY DEF SendBegin, Orderly
<1>. QED BY <1>1, <1>2, NothingPromised, QuietInv DEF SenderKept

LEMMA ServerBeginInv ==
  ASSUME Inv, NEW t \in Threads, NEW e \in Events, ServerBegin(t, e)
  PROVE  Inv'
<1>1. Base' /\ Kept /\ Others(t) /\ job'[t].pc = "record" /\ SenderKept
  BY InvBase, ServerBeginStep
<1>2. ~Orderly \/ \A o \in Threads : ~Sending(o)
  BY DEF ServerBegin, Orderly
<1>. QED BY <1>1, <1>2, NothingPromised, QuietInv DEF SenderKept

LEMMA EmitNextInv ==
  ASSUME Inv, NEW t \in Threads, Base', Kept, Others(t), SenderKept, Sending(t),
         job'[t].pc = "emit", Orderly => job'[t].event \in Recorded'
  PROVE  Inv'
<1>1. Worth(t)' /\ JoinHorizon(t)' /\ PendingHorizon(t)'
  BY DEF Worth, JoinHorizon, PendingHorizon
<1>2. Orderly => SentIsRecorded(t)'
  BY DEF SentIsRecorded
<1>. QED BY <1>1, <1>2, QuietInv DEF Informed, SenderKept

LEMMA SendRecordInv ==
  ASSUME Inv, NEW t \in Threads, SendRecord(t)
  PROVE  Inv'
BY InvBase, SendRecordStep, EmitNextInv DEF Sending

LEMMA SendUnrecordedInv ==
  ASSUME Inv, NEW t \in Threads, SendUnrecorded(t)
  PROVE  Inv'
<1>1. ~Orderly /\ Sending(t)
  BY DEF SendUnrecorded, Orderly, Sending, At
<1>. QED BY <1>1, InvBase, SendUnrecordedStep, EmitNextInv

LEMMA ServerRecordErrorInv ==
  ASSUME Inv, NEW t \in Threads, ServerRecordError(t)
  PROVE  Inv'
<1>1. Base' /\ Kept /\ Others(t) /\ SenderKept /\ job'[t].pc = "idle"
  BY InvBase, ServerRecordErrorStep
<1>. QED BY <1>1, NothingPromised, QuietInv DEF SenderKept, Sending

LEMMA SendAckInv ==
  ASSUME Inv, NEW t \in Threads, SendAck(t)
  PROVE  Inv'
<1>1. Base' /\ Kept /\ Others(t) /\ SenderKept /\ job'[t].pc = "idle"
  BY InvBase, SendAckStep
<1>. QED BY <1>1, NothingPromised, QuietInv DEF SenderKept, Sending

(* When senders take turns, a client that is emitted an event has all that *)
(* was recorded before: nothing else is on its way.                        *)
LEMMA SendEmitInv ==
  ASSUME Inv, NEW t \in Threads, SendEmit(t)
  PROVE  Inv'
<1> DEFINE e == job[t].event
<1>1. /\ Base /\ Base' /\ Kept /\ Others(t)
      /\ UNCHANGED <<log, withheld, synced, misled, resumed>> /\ Recorded' = Recorded
      /\ job[t].pc = "emit" /\ job'[t].pc = "ack" /\ e \in Events
      /\ \A c \in Clients :
           \/ last'[c] = last[c]
           \/ c \in synced /\ last'[c] = e /\ e \in got'[c]
  BY InvBase, SendEmitStep
<1>2. \A o \in Threads \ {t} : Steady(o)
  BY <1>1, OthersSteady DEF Base, TypeOK
<1>3. Worth(t)' /\ Informed(t)'
  BY <1>1, NothingPromised
<1>4. Complete'
  BY <1>1, CompleteKept DEF Inv
<1>5. ASSUME Orderly PROVE OneSender' /\ LastHorizon'
  <2>1. OneSender'
    <3>1. Sending(t)
      BY <1>1 DEF Sending
    <3>2. \A o \in Threads : Sending(o)' => Sending(o)
      BY <1>2, <3>1 DEF Sending, Steady
    <3>. QED BY <1>5, <3>2 DEF Inv, OrderlyInv, OneSender
  <2>2. LastHorizon /\ SentIsRecorded(t) /\ e \in Recorded
    BY <1>1, <1>5 DEF Inv, OrderlyInv, Informed, SentIsRecorded, At
  <2>3. \A x : OnItsWay(x) => x = e
    <3>1. \A o \in Threads : At(o, "emit") => o = t
      BY <1>1, <1>5 DEF Inv, OrderlyInv, OneSender, Sending, At
    <3>. QED BY <3>1 DEF OnItsWay
  <2>4. ASSUME NEW c \in Clients, last'[c] = last[c]
        PROVE  /\ last'[c] \in Recorded' \cup {NoEvent}
               /\ c \notin misled' => Horizon(c, last[c], {})'
    <3>1. last[c] \in Recorded \cup {NoEvent} /\ (c \notin misled => Horizon(c, last[c], {}))
      BY <2>2 DEF LastHorizon
    <3>2. ASSUME c \notin misled' PROVE Horizon(c, last[c], {})'
      <4>1. Horizon(c, last[c], {})
        BY <1>1, <3>1, <3>2
      <4>. QED BY <1>1, <2>4, <3>1, <4>1, HorizonKept DEF Horizon, Has
    <3>. QED BY <1>1, <2>4, <3>1, <3>2
  <2>5. ASSUME NEW c \in Clients, c \in synced, last'[c] = e, e \in got'[c]
        PROVE  /\ last'[c] \in Recorded' \cup {NoEvent}
               /\ c \notin misled' => Horizon(c, last[c], {})'
    <3>1. ASSUME c \notin misled', NEW x \in Recorded \ withheld
          PROVE  author'[x] = c \/ x \in got'[c]
      <4>1. c \notin Excused
        BY <1>1, <1>5, <3>1 DEF Excused
      <4>2. Accounted(c, x) /\ x \in Events
        BY <1>1, <2>5, <4>1, LogElements DEF Inv, Complete, Base, TypeOK
      <4>3. Has(c, x) \/ x = e
        BY <2>3, <4>2 DEF Accounted, Has
      <4>. QED BY <1>1, <2>5, <4>2, <4>3 DEF Kept, Has
    <3>2. \A i \in DOMAIN log' : log'[i] \notin withheld' => log'[i] \in Recorded \ withheld
      BY <1>1, LogElements DEF Base, TypeOK
    <3>. QED BY <1>1, <2>2, <2>5, <3>1, <3>2 DEF Horizon, Has
  <2>. QED BY <1>1, <2>1, <2>4, <2>5 DEF LastHorizon
<1>6. \A o \in Threads : Steady(o) \/ (Worth(o)' /\ Informed(o)')
  BY <1>2, <1>3
<1>. QED BY <1>1, <1>4, <1>5, <1>6, StepInv

LEMMA InitInv == Init => Inv
<1> SUFFICES ASSUME Init PROVE Inv
  OBVIOUS
<1>1. log = <<>> /\ DOMAIN log = {} /\ log \in Seq(Events)
  BY DEF Init
<1>2. Recorded = {}
  BY <1>1 DEF Recorded
<1>3. TypeOK
  BY <1>1, <1>2, IdleJob DEF Init, TypeOK
<1>4. \A t \in Threads : job[t].pc = "idle"
  BY IdleJob DEF Init
<1>5. JobsSound
  BY <1>4 DEF JobsSound, JobSound, JoinPcs, SendPcs
<1>6. Distinct /\ Complete
  BY <1>1 DEF Distinct, Complete, Init
<1>7. Pending /\ OneSender /\ \A t \in Threads : Informed(t)
  BY <1>4 DEF Pending, Worth, OneSender, Sending, Informed, SentIsRecorded, JoinHorizon,
    PendingHorizon, At
<1>8. LastHorizon
  BY <1>1 DEF Init, LastHorizon, Horizon
<1>. QED BY <1>3, <1>5, <1>6, <1>7, <1>8 DEF Inv, OrderlyInv

LEMMA StutterInv == Inv /\ UNCHANGED vars => Inv'
<1> SUFFICES ASSUME Inv, UNCHANGED vars PROVE Inv'
  OBVIOUS
<1>1. UNCHANGED <<log, online, member, author, withheld, job, got, last, synced, resumed, misled>>
  BY DEF vars, eventVars, clientVars
<1>2. Base /\ Distinct' /\ Grown /\ Recorded' = Recorded
  BY <1>1, InvBase, SameLog DEF Base, TypeOK
<1>3. Base'
  BY <1>1, <1>2 DEF Base, TypeOK, JobsSound, JobSound
<1>4. Kept
  <2>1. \A e \in Events : OnItsWay(e) => OnItsWay(e)'
    BY <1>1 DEF OnItsWay, At
  <2>. QED BY <1>1, <1>2, <2>1, KeptUnlessEmit DEF Base, AuthorKept
<1>5. \A o \in Threads : Steady(o)
  BY <1>1 DEF Steady
<1>6. Complete'
  BY <1>1, <1>2, <1>3, <1>4, CompleteKept DEF Inv
<1>7. Orderly => OneSender' /\ LastHorizon'
  BY <1>1, <1>2, <1>4, LastKept DEF Inv, OrderlyInv, OneSender, Sending
<1>. QED BY <1>3, <1>4, <1>5, <1>6, <1>7, StepInv

LEMMA NextInv == Inv /\ [Next]_vars => Inv'
<1> SUFFICES ASSUME Inv, [Next]_vars PROVE Inv'
  OBVIOUS
<1>1. ASSUME NEW t \in Threads, Step(t) PROVE Inv'
  BY <1>1, JoinEnterInv, JoinLookupInv, JoinLookupErrorInv, JoinAnswerInv, SendRecordInv,
    ServerRecordErrorInv, SendUnrecordedInv, SendEmitInv, SendAckInv DEF Step
<1>. QED BY <1>1, OpenInv, CloseInv, JoinBeginInv, SendBeginInv, ServerBeginInv, StutterInv DEF Next

LEMMA Invariance == Spec => []Inv
BY InitInv, NextInv, PTL DEF Spec

-----------------------------------------------------------------------------
(* The theorems                                                            *)

(* Types: among them, that a client that had its answer is in the room,    *)
(* and that only a session of the server is.                               *)
THEOREM DeliveryTypes == Spec => []TypeOK
<1>1. Inv => TypeOK
  BY DEF Inv
<1>. QED BY <1>1, Invariance, PTL

(* handle_join_room enters the room before it reads the history, and       *)
(* process_client_event records before it emits: whatever else runs, and   *)
(* whatever else fails, no event passes a client on its first join, unless *)
(* the lookup itself fails or finds an event named like a null lastEventID.*)
THEOREM FirstJoinLeavesNoGap == Spec => []FirstJoinComplete
<1>1. Inv => FirstJoinComplete
  BY DEF Inv, Complete, FirstJoinComplete, Excused
<1>. QED BY <1>1, Invariance, PTL

(* A client that resumes with a lastEventID misses nothing either, when    *)
(* senders take turns and every event is recorded.                         *)
THEOREM ResumeLeavesNoGap ==
  ASSUME Orderly
  PROVE  Spec => []NoGap
<1>1. Inv => NoGap
  BY DEF Inv, Complete, NoGap, Excused
<1>. QED BY <1>1, Invariance, PTL

(* Then a lastEventID hides nothing from its client, even offline.         *)
THEOREM LastEventHidesNothing ==
  ASSUME Orderly
  PROVE  Spec => []LastIsHorizon
<1>1. ASSUME Inv PROVE LastIsHorizon
  <2>1. SUFFICES ASSUME NEW c \in Clients, c \notin misled, last[c] \in Recorded,
                        NEW e \in Recorded \ withheld, e \notin AfterSet(last[c])
                 PROVE  Accounted(c, e)
    BY DEF LastIsHorizon, AfterSet
  <2>2. log \in Seq(Events) /\ Distinct
    BY <1>1 DEF Inv, TypeOK
  <2>3. PICK n \in DOMAIN log : log[n] = last[c]
    BY <2>1 DEF Recorded
  <2>4. PICK i \in DOMAIN log : log[i] = e
    BY <2>1 DEF Recorded
  <2>5. i <= n
    BY <2>1, <2>2, <2>3, <2>4, RestOfLog
  <2>6. Horizon(c, last[c], {})
    BY <1>1, <2>1 DEF Inv, OrderlyInv, LastHorizon
  <2>7. Has(c, e)
    BY <2>1, <2>3, <2>4, <2>5, <2>6 DEF Horizon
  <2>. QED BY <2>7 DEF Has, Accounted
<1>. QED BY <1>1, Invariance, PTL
=============================================================================
