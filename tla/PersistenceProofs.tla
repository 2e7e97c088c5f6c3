------------------------- MODULE PersistenceProofs --------------------------
(***************************************************************************)
(* Proofs of the invariants of Persistence, for any number of processors,  *)
(* events and recordings.  The inductive invariant IInv says, beside the   *)
(* invariants themselves: what a recording holds at each of its steps      *)
(* (Types), that the counter of callbacks is the number of recordings that *)
(* have one (PendingCounts), who may hold the recorder (Roles), and what   *)
(* the RAM history of the newest processor covers (Served).  The steps of  *)
(* a recording are first reduced to their effects (CarryEffect and the     *)
(* facts after it), so that each part of IInv is proved from those.        *)
(***************************************************************************)
EXTENDS Persistence, FiniteSetTheorems, TLAPS

CallTypes ==
  \A c \in Calls :
    LET r == call[c]
    IN /\ r \in Call
       /\ r.pc = "idle" => r = Idle
       /\ r.pc # "idle" => r.event \in Events
       /\ r.pc = "tested" => r.proc = NoProc
       /\ r.pc \notin {"idle", "tested"} => r.proc \in Procs

StoreTypes ==
  /\ stored \subseteq Events /\ failed \subseteq Events /\ excused \subseteq Events
  /\ cache \in [Procs -> SUBSET Events]
  /\ snapshot \subseteq stored

ProcTypes ==
  /\ phase \in [Procs -> Phases]
  /\ {recorder, provider, newest} \subseteq Procs \cup {NoProc}
  /\ timedOut \subseteq Procs
  /\ loopUp \in BOOLEAN

Counted(p) == {c \in Calls : call[c].proc = p /\ call[c].pc \in Scheduled}

PendingCounts ==
  /\ pending \in [Procs -> Nat]
  /\ \A p \in Procs : pending[p] = Cardinality(Counted(p))

Types == CallTypes /\ call \in [Calls -> Call] /\ StoreTypes /\ ProcTypes

LEMMA TypesInit == Init => Types
BY NullsFresh DEF Init, Types, CallTypes, StoreTypes, ProcTypes, Call, Idle, Phases, CallPcs

(* A step of a recording moves that recording only.                        *)
Moves(c, label) ==
  /\ call' \in [Calls -> Call]
  /\ \A d \in Calls \ {c} : call'[d] = call[d]
  /\ call'[c].pc = label
  /\ call'[c].event = call[c].event

LEMMA FinishMoves ==
  ASSUME Types, NEW c \in Calls, Finish(c)
  PROVE  /\ call' \in [Calls -> Call]
         /\ \A d \in Calls \ {c} : call'[d] = call[d]
         /\ call'[c] = Idle /\ call'[c].pc = "idle"
BY DEF Types, Finish, Idle, Call, CallPcs

LEMMA GotoMoves ==
  ASSUME Types, NEW c \in Calls, NEW label \in CallPcs, Goto(c, label)
  PROVE  Moves(c, label) /\ call'[c].proc = call[c].proc /\ call'[c].late = call[c].late
<1>1. call[c] \in Call
  BY DEF Types
<1>2. [call[c] EXCEPT !.pc = label] \in Call
  BY <1>1 DEF Call
<1>3. call' = [call EXCEPT ![c] = [call[c] EXCEPT !.pc = label]]
  BY DEF Goto
<1>. QED BY <1>1, <1>2, <1>3 DEF Types, Moves, Call

LEMMA RecordCallMoves ==
  ASSUME Types, NEW c \in Calls, recorder \in Procs,
         call' = [call EXCEPT ![c] = [@ EXCEPT !.pc = "called", !.proc = recorder]]
  PROVE  Moves(c, "called") /\ call'[c].proc = recorder
<1>1. call[c] \in Call
  BY DEF Types
<1>2. [call[c] EXCEPT !.pc = "called", !.proc = recorder] \in Call
  BY <1>1 DEF Call, CallPcs
<1>. QED BY <1>1, <1>2 DEF Types, Moves, Call

LEMMA ScheduleMoves ==
  ASSUME Types, NEW c \in Calls, NEW late \in BOOLEAN,
         call' = [call EXCEPT ![c] = [@ EXCEPT !.pc = "counted", !.late = late]]
  PROVE  Moves(c, "counted") /\ call'[c].proc = call[c].proc /\ call'[c].late = late
<1>1. call[c] \in Call
  BY DEF Types
<1>2. [call[c] EXCEPT !.pc = "counted", !.late = late] \in Call
  BY <1>1 DEF Call, CallPcs
<1>. QED BY <1>1, <1>2 DEF Types, Moves, Call

(* What the steps of a recording do, said once for all proofs below.       *)
CarryEffect(c) ==
  LET e == call[c].event  p == call[c].proc
  IN \/ /\ call[c].pc = "tested" /\ recorder \in Procs
        /\ Moves(c, "called") /\ call'[c].proc = recorder
        /\ UNCHANGED <<store, pending, excused>>
     \/ /\ call[c].pc = "tested" \/ (call[c].pc = "called" /\ e \in cache[p])
        /\ Finish(c)
        /\ UNCHANGED <<store, pending, excused>>
     \/ /\ call[c].pc = "called" /\ e \notin cache[p]
        /\ Moves(c, "appended") /\ call'[c].proc = p
        /\ cache' = [cache EXCEPT ![p] = @ \cup {e}]
        /\ excused' = IF Over(p) THEN excused \cup {e} ELSE excused
        /\ UNCHANGED <<stored, failed, pending>>
     \/ /\ call[c].pc = "appended"
        /\ Moves(c, "counted") /\ call'[c].proc = p /\ call'[c].late = Over(p)
        /\ pending' = [pending EXCEPT ![p] = @ + 1]
        /\ UNCHANGED <<store, excused>>
     \/ /\ \/ call[c].pc = "appended" /\ Moves(c, "direct")
           \/ call[c].pc = "counted" /\ Moves(c, "queued")
        /\ call'[c].proc = p /\ call'[c].late = call[c].late
        /\ UNCHANGED <<store, pending, excused>>
     \/ /\ call[c].pc = "counted"
        /\ Finish(c)
        /\ failed' = failed \cup {e}
        /\ pending' = [pending EXCEPT ![p] = @ - 1]
        /\ UNCHANGED <<stored, cache, excused>>
     \/ /\ \/ call[c].pc = "direct" /\ Finish(c)
           \/ /\ call[c].pc = "queued" /\ Moves(c, "saved")
              /\ call'[c].proc = p /\ call'[c].late = call[c].late
        /\ \/ stored' = stored \cup {e} /\ failed' = failed
           \/ stored' = stored /\ failed' = failed \cup {e}
        /\ UNCHANGED <<cache, pending, excused>>
     \/ /\ call[c].pc = "saved"
        /\ Finish(c)
        /\ pending' = [pending EXCEPT ![p] = @ - 1]
        /\ UNCHANGED <<store, excused>>

LEMMA Carries ==
  ASSUME Types, NEW c \in Calls, Carry(c)
  PROVE  CarryEffect(c) /\ UNCHANGED <<procs, loopUp>>
<1>1. CASE RecordCall(c)
  <2>1. recorder # NoProc => recorder \in Procs
    BY DEF Types, ProcTypes
  <2>. QED BY <1>1, <2>1, RecordCallMoves DEF RecordCall, CarryEffect
<1>2. CASE Append(c)
  BY <1>2, GotoMoves DEF Append, CarryEffect, CallPcs, store
<1>3. CASE Schedule(c)
  <2>. DEFINE p == call[c].proc
  <2>1. Over(p) \in BOOLEAN
    BY DEF Over
  <2>2. CASE /\ loopUp /\ pending' = [pending EXCEPT ![p] = @ + 1]
             /\ call' = [call EXCEPT ![c] = [@ EXCEPT !.pc = "counted", !.late = Over(p)]]
    <3>1. Moves(c, "counted") /\ call'[c].proc = p /\ call'[c].late = Over(p)
      BY <2>1, <2>2, ScheduleMoves
    <3>. QED BY <1>3, <2>2, <3>1 DEF Schedule, CarryEffect
  <2>3. CASE Goto(c, "direct") /\ UNCHANGED pending
    BY <1>3, <2>3, GotoMoves DEF Schedule, CarryEffect, CallPcs
  <2>. QED BY <1>3, <2>2, <2>3 DEF Schedule
<1>4. CASE Enqueue(c)
  BY <1>4, GotoMoves DEF Enqueue, CarryEffect, CallPcs
<1>5. CASE EnqueueError(c)
  BY <1>5 DEF EnqueueError, CarryEffect
<1>6. CASE Save(c)
  BY <1>6, GotoMoves DEF Save, CarryEffect, CallPcs
<1>7. CASE Finally(c)
  BY <1>7 DEF Finally, CarryEffect
<1>. QED BY <1>1, <1>2, <1>3, <1>4, <1>5, <1>6, <1>7 DEF Carry

LEMMA CarryCallTypes ==
  ASSUME Types, NEW c \in Calls, CarryEffect(c)
  PROVE  CallTypes' /\ call' \in [Calls -> Call]
<1>1. call' \in [Calls -> Call] /\ \A d \in Calls \ {c} : call'[d] = call[d]
  BY FinishMoves DEF CarryEffect, Moves
<1>2. CASE call'[c] = Idle
  <2>1. CallTypes'
    BY <1>1, <1>2 DEF Types, CallTypes, Idle, Call
  <2>. QED BY <2>1, <1>1
<1>3. CASE /\ call'[c].pc \notin {"idle", "tested"} /\ call[c].pc # "idle"
           /\ call'[c].event = call[c].event /\ call'[c].proc \in Procs
  <2>1. CallTypes'
    BY <1>1, <1>3 DEF Types, CallTypes, Call
  <2>. QED BY <2>1, <1>1
<1>4. call[c].pc \notin {"idle", "tested"} => call[c].proc \in Procs
  BY DEF Types, CallTypes
<1>5. \/ call'[c] = Idle
      \/ /\ call'[c].pc \notin {"idle", "tested"} /\ call[c].pc # "idle"
         /\ call'[c].event = call[c].event /\ call'[c].proc \in Procs
  BY <1>4, FinishMoves DEF CarryEffect, Moves
<1>. QED BY <1>1, <1>2, <1>3, <1>5

LEMMA CarryTypes ==
  ASSUME Types, NEW c \in Calls, Carry(c) PROVE Types'
<1>1. CarryEffect(c) /\ UNCHANGED <<procs, loopUp>>
  BY Carries
<1>2. CallTypes' /\ call' \in [Calls -> Call]
  BY <1>1, CarryCallTypes
<1>3. call[c].pc # "idle" /\ call[c].event \in Events
  BY <1>1 DEF CarryEffect, Types, CallTypes
<1>4. /\ stored' \subseteq Events /\ failed' \subseteq Events /\ excused' \subseteq Events
      /\ stored \subseteq stored' /\ snapshot' = snapshot
  BY <1>1, <1>3 DEF CarryEffect, store, procs, Types, StoreTypes
<1>5. cache' \in [Procs -> SUBSET Events]
  BY <1>1, <1>3 DEF CarryEffect, store, Types, StoreTypes
<1>6. ProcTypes'
  BY <1>1 DEF procs, Types, ProcTypes
<1>. QED BY <1>2, <1>4, <1>5, <1>6 DEF Types, StoreTypes

(* What a processor's step changes is neither the data store nor a recording. *)
ProcStep(p) == Begin(p) \/ Continue(p) \/ WaitTimesOut(p)

LEMMA ProcStepTypes ==
  ASSUME Types, NEW p \in Procs, ProcStep(p) PROVE Types'
<1>1. UNCHANGED <<stored, failed, pending, loopUp, call>>
  BY DEF ProcStep, Begin, Continue, Construct, BindProvider, Load, Replace, UnbindRecorder,
         UnbindProvider, WaitEnds, WaitTimesOut, Stop, store
<1>2. InFlight \subseteq Events
  BY DEF Types, CallTypes, InFlight
<1>3. CallTypes' /\ call' \in [Calls -> Call]
  BY <1>1 DEF Types, CallTypes
<1>4. StoreTypes'
  BY <1>1, <1>2 DEF ProcStep, Begin, Continue, Construct, BindProvider, Load, Replace,
         UnbindRecorder, UnbindProvider, WaitEnds, WaitTimesOut, Stop, store, Types, StoreTypes
<1>5. ProcTypes'
  BY <1>1 DEF ProcStep, Begin, Continue, Construct, BindProvider, Load, Replace, Enter, Phases,
         UnbindRecorder, UnbindProvider, WaitEnds, WaitTimesOut, Stop, Types, ProcTypes
<1>. QED BY <1>3, <1>4, <1>5 DEF Types

LEMMA TestTypes ==
  ASSUME Types, NEW c \in Calls, NEW e \in Events, RecordTest(c, e) PROVE Types'
<1>1. [Idle EXCEPT !.pc = "tested", !.event = e] \in Call
  BY DEF Idle, Call, CallPcs
<1>2. CallTypes' /\ call' \in [Calls -> Call]
  BY <1>1 DEF RecordTest, Types, CallTypes, Idle
<1>3. StoreTypes' /\ ProcTypes'
  BY DEF RecordTest, store, procs, Types, StoreTypes, ProcTypes
<1>. QED BY <1>2, <1>3 DEF Types

LEMMA CrashTypes ==
  ASSUME Types, Crash PROVE Types'
BY DEF Crash, Types, CallTypes, StoreTypes, ProcTypes, Call, Idle, Phases, CallPcs

LEMMA TypesStep == Types /\ [Next]_vars => Types'
<1>. SUFFICES ASSUME Types, [Next]_vars PROVE Types'
  OBVIOUS
<1>1. ASSUME NEW c \in Calls, Carry(c) PROVE Types'
  BY <1>1, CarryTypes
<1>2. ASSUME NEW c \in Calls, NEW e \in Events, RecordTest(c, e) PROVE Types'
  BY <1>2, TestTypes
<1>3. ASSUME NEW p \in Procs, ProcStep(p) PROVE Types'
  BY <1>3, ProcStepTypes
<1>4. CASE LoopTurns
  BY <1>4 DEF LoopTurns, store, procs, Types, CallTypes, StoreTypes, ProcTypes
<1>5. CASE Crash
  BY <1>5, CrashTypes
<1>6. CASE UNCHANGED vars
  BY <1>6 DEF vars, store, procs, Types, CallTypes, StoreTypes, ProcTypes
<1>. QED BY <1>1, <1>2, <1>3, <1>4, <1>5, <1>6 DEF Next, ProcStep

-----------------------------------------------------------------------------
(* The count of scheduled callbacks, and what the wait of a shutdown finds *)

LEMMA PendingInit == Init => PendingCounts /\ DrainedIsSaved
<1>. SUFFICES ASSUME Init PROVE PendingCounts /\ DrainedIsSaved
  OBVIOUS
<1>1. \A p \in Procs : Counted(p) = {}
  BY DEF Init, Counted, Scheduled, Idle
<1>. QED BY <1>1, FS_EmptySet DEF Init, PendingCounts, DrainedIsSaved, Over

LEMMA CountedFinite == \A p \in Procs : IsFiniteSet(Counted(p))
BY CallsFinite, FS_Subset DEF Counted

(* The steps before a callback is counted and those of a counted one.      *)
LEMMA CarryPending ==
  ASSUME Types, PendingCounts, NEW c \in Calls, CarryEffect(c) PROVE PendingCounts'
<1>. PICK p : p = call[c].proc
  OBVIOUS
<1>1. \A d \in Calls \ {c} : call'[d] = call[d]
  BY FinishMoves DEF CarryEffect, Moves
<1>2. CASE pending' = pending /\ \A q \in Procs : Counted(q)' = Counted(q)
  BY <1>2 DEF PendingCounts
<1>3. CASE /\ pending' = [pending EXCEPT ![p] = @ + 1] /\ p \in Procs
           /\ c \notin Counted(p) /\ Counted(p)' = Counted(p) \cup {c}
           /\ \A q \in Procs \ {p} : Counted(q)' = Counted(q)
  <2>1. Cardinality(Counted(p)') = Cardinality(Counted(p)) + 1
    BY <1>3, CountedFinite, FS_AddElement
  <2>. QED BY <1>3, <2>1 DEF PendingCounts
<1>4. CASE /\ pending' = [pending EXCEPT ![p] = @ - 1] /\ p \in Procs
           /\ c \in Counted(p) /\ Counted(p)' = Counted(p) \ {c}
           /\ \A q \in Procs \ {p} : Counted(q)' = Counted(q)
  <2>1. /\ IsFiniteSet(Counted(p)')
        /\ Cardinality(Counted(p)') = Cardinality(Counted(p)) - 1
    BY <1>4, CountedFinite, FS_RemoveElement
  <2>2. Cardinality(Counted(p)') \in Nat
    BY <2>1, FS_CardinalityType
  <2>. QED BY <1>4, <2>1, <2>2 DEF PendingCounts
<1>5. call[c].pc \notin {"idle", "tested"} => p \in Procs
  BY DEF Types, CallTypes
<1>6. CASE /\ pending' = pending
           /\ call[c].pc \in Scheduled <=> call'[c].pc \in Scheduled
           /\ call[c].pc \in Scheduled => call'[c].proc = call[c].proc
  <2>1. \A q \in Procs : Counted(q)' = Counted(q)
    BY <1>1, <1>6 DEF Counted
  <2>. QED BY <1>2, <1>6, <2>1
<1>7. CASE /\ call[c].pc = "appended" /\ Moves(c, "counted") /\ call'[c].proc = p
           /\ pending' = [pending EXCEPT ![p] = @ + 1]
  <2>1. /\ c \notin Counted(p) /\ Counted(p)' = Counted(p) \cup {c}
        /\ \A q \in Procs \ {p} : Counted(q)' = Counted(q)
    BY <1>1, <1>7 DEF Counted, Scheduled, Moves
  <2>. QED BY <1>3, <1>5, <1>7, <2>1
<1>8. CASE /\ call[c].pc \in {"counted", "saved"} /\ Finish(c)
           /\ pending' = [pending EXCEPT ![p] = @ - 1]
  <2>1. call'[c].pc = "idle"
    BY <1>8, FinishMoves
  <2>2. /\ c \in Counted(p) /\ Counted(p)' = Counted(p) \ {c}
        /\ \A q \in Procs \ {p} : Counted(q)' = Counted(q)
    BY <1>1, <1>8, <2>1 DEF Counted, Scheduled
  <2>. QED BY <1>4, <1>5, <1>8, <2>2
<1>9. \/ /\ pending' = pending
         /\ call[c].pc \in Scheduled <=> call'[c].pc \in Scheduled
         /\ call[c].pc \in Scheduled => call'[c].proc = call[c].proc
      \/ /\ call[c].pc = "appended" /\ Moves(c, "counted") /\ call'[c].proc = p
         /\ pending' = [pending EXCEPT ![p] = @ + 1]
      \/ /\ call[c].pc \in {"counted", "saved"} /\ Finish(c)
         /\ pending' = [pending EXCEPT ![p] = @ - 1]
  BY FinishMoves DEF CarryEffect, Moves, Scheduled
<1>. QED BY <1>6, <1>7, <1>8, <1>9

LEMMA PendingStep ==
  ASSUME Types, PendingCounts, DrainedIsSaved, [Next]_vars
  PROVE  PendingCounts' /\ DrainedIsSaved'
<1>1. ASSUME NEW c \in Calls, Carry(c) PROVE PendingCounts' /\ DrainedIsSaved'
  <2>1. CarryEffect(c) /\ UNCHANGED procs
    BY <1>1, Carries
  <2>2. \A d \in Calls : call'[d].pc \in Scheduled =>
          /\ call'[d].proc = call[d].proc
          /\ \/ call[d].pc \in Scheduled /\ call'[d].late = call[d].late
             \/ call'[d].late = Over(call[d].proc)
    BY <2>1, FinishMoves DEF CarryEffect, Moves, Scheduled
  <2>3. \A p \in Procs : Over(p)' = Over(p)
    BY <2>1 DEF Over, procs
  <2>4. DrainedIsSaved'
    BY <2>1, <2>2, <2>3 DEF DrainedIsSaved, procs
  <2>. QED BY <2>1, <2>4, CarryPending
<1>2. ASSUME NEW c \in Calls, NEW e \in Events, RecordTest(c, e)
      PROVE  PendingCounts' /\ DrainedIsSaved'
  <2>1. /\ call[c].pc \notin Scheduled /\ call'[c].pc \notin Scheduled
        /\ \A d \in Calls \ {c} : call'[d] = call[d]
        /\ UNCHANGED <<pending, procs>>
    BY <1>2 DEF RecordTest, Types, Scheduled, Idle, Call
  <2>2. \A p \in Procs : Counted(p)' = Counted(p)
    BY <2>1 DEF Counted
  <2>. QED BY <2>1, <2>2 DEF PendingCounts, DrainedIsSaved, Over, procs
<1>3. ASSUME UNCHANGED <<pending, call>>
      PROVE  PendingCounts'
  BY <1>3 DEF PendingCounts, Counted
<1>4. ASSUME NEW p \in Procs, ProcStep(p) PROVE PendingCounts' /\ DrainedIsSaved'
  <2>1. UNCHANGED <<pending, call>>
    BY <1>4 DEF ProcStep, Begin, Continue, Construct, BindProvider, Load, Replace,
           UnbindRecorder, UnbindProvider, WaitEnds, WaitTimesOut, Stop
  <2>2. CASE pending[p] = 0
    <3>1. Counted(p) = {}
      BY <2>2, CountedFinite, FS_EmptySet DEF PendingCounts
    <3>2. /\ timedOut' = timedOut
          /\ \A q \in Procs : Over(q)' => Over(q) \/ q = p
      BY <1>4, <2>2 DEF ProcStep, Begin, Continue, Construct, BindProvider, Load, Replace, Over,
             UnbindRecorder, UnbindProvider, WaitEnds, WaitTimesOut, Stop, Enter, Types, ProcTypes
    <3>. QED BY <1>3, <2>1, <3>1, <3>2 DEF DrainedIsSaved, Counted
  <2>3. CASE pending[p] # 0
    <3>1. /\ timedOut \subseteq timedOut'
          /\ \A q \in Procs : Over(q)' => Over(q) \/ q \in timedOut'
      BY <1>4, <2>3 DEF ProcStep, Begin, Continue, Construct, BindProvider, Load, Replace, Over,
             UnbindRecorder, UnbindProvider, WaitEnds, WaitTimesOut, Stop, Enter, Types, ProcTypes
    <3>. QED BY <1>3, <2>1, <3>1 DEF DrainedIsSaved
  <2>. QED BY <2>2, <2>3
<1>5. CASE LoopTurns \/ UNCHANGED vars
  BY <1>3, <1>5 DEF LoopTurns, vars, procs, DrainedIsSaved, Over
<1>6. CASE Crash
  <2>1. \A p \in Procs : Counted(p)' = {}
    BY <1>6 DEF Crash, Counted, Scheduled, Idle
  <2>. QED BY <1>6, <2>1, FS_EmptySet DEF Crash, PendingCounts, DrainedIsSaved, Over
<1>. QED BY <1>1, <1>2, <1>4, <1>5, <1>6 DEF Next, ProcStep

-----------------------------------------------------------------------------
(* Who records *)

BusyPhases == {"recording", "loading", "unbinding", "waiting", "drained"}

(* The recorder is the newest processor, until that is shut down, and the  *)
(* framework is busy with one processor at a time.                         *)
Roles ==
  /\ recorder \in {newest, NoProc}
  /\ \A p \in Procs :
       /\ newest = p => phase[p] # "absent"
       /\ phase[p] = "recording" => newest = p
       /\ recorder = p => phase[p] \in {"recording", "bound", "loading", "ready"}
       /\ \A q \in Procs : phase[p] \in BusyPhases /\ phase[q] \in BusyPhases => p = q
  /\ NewestServes

LEMMA RolesStep ==
  ASSUME Types, Roles, [Next]_vars PROVE Roles'
<1>1. CASE UNCHANGED procs
  BY <1>1 DEF procs, Roles, NewestServes, BusyPhases
<1>2. ASSUME NEW p \in Procs, Construct(p) PROVE Roles'
  BY <1>2, NullsFresh DEF Construct, Busy, Enter, Types, ProcTypes, Roles, NewestServes, BusyPhases
<1>3. ASSUME NEW p \in Procs, BindProvider(p) PROVE Roles'
  BY <1>3 DEF BindProvider, Enter, Types, ProcTypes, Roles, NewestServes, BusyPhases
<1>4. ASSUME NEW p \in Procs, Load(p) \/ Replace(p) PROVE Roles'
  BY <1>4 DEF Load, Replace, Busy, Enter, Types, ProcTypes, Roles, NewestServes, BusyPhases
<1>5. ASSUME NEW p \in Procs, UnbindRecorder(p) PROVE Roles'
  BY <1>5, NullsFresh DEF UnbindRecorder, Busy, Enter, Types, ProcTypes, Roles, NewestServes,
                          BusyPhases
<1>6. ASSUME NEW p \in Procs, UnbindProvider(p) PROVE Roles'
  BY <1>6 DEF UnbindProvider, Enter, Types, ProcTypes, Roles, NewestServes, BusyPhases
<1>7. ASSUME NEW p \in Procs, WaitEnds(p) \/ WaitTimesOut(p) \/ Stop(p) PROVE Roles'
  BY <1>7 DEF WaitEnds, WaitTimesOut, Stop, Enter, Types, ProcTypes, Roles, NewestServes, BusyPhases
<1>8. CASE Crash
  BY <1>8, NullsFresh DEF Crash, Roles, NewestServes, BusyPhases
<1>9. ASSUME NEW c \in Calls, Carry(c) \/ \E e \in Events : RecordTest(c, e)
      PROVE  UNCHANGED procs
  BY <1>9, Carries DEF RecordTest
<1>. QED BY <1>1, <1>2, <1>3, <1>4, <1>5, <1>6, <1>7, <1>8, <1>9
         DEF Next, Begin, Continue, LoopTurns, vars

-----------------------------------------------------------------------------
(* Nothing forgotten *)

OnWay == {"appended", "direct", "counted", "queued"}

(* What a step of a recording does to what is on its way to the data store. *)
LEMMA CarryFacts ==
  ASSUME Types, NEW c \in Calls, Carry(c)
  PROVE  /\ call[c].pc # "idle" /\ call[c].event \in Events
         /\ \A d \in Calls \ {c} : call'[d] = call[d]
         /\ call'[c].pc = "idle" \/ call'[c].event = call[c].event
         /\ call[c].pc \notin {"idle", "tested"} /\ call'[c].pc # "idle"
              => call'[c].proc = call[c].proc
         /\ call[c].pc = "tested" /\ call'[c].pc # "idle" => call'[c].proc = recorder
         /\ \/ call[c].pc = "called" /\ call'[c].pc = "appended"
            \/ call'[c].pc \in OnWay => call[c].pc \in OnWay
         /\ stored' \in {stored, stored \cup {call[c].event}}
         /\ stored' # stored => call[c].pc \in OnWay /\ call'[c].pc \notin OnWay
         /\ \A e \in stored \cup failed : e \in stored' \cup failed'
         /\ call[c].pc \in OnWay /\ call'[c].pc \notin OnWay
              => call[c].event \in stored' \cup failed'
<1>1. CarryEffect(c)
  BY Carries
<1>2. call[c].pc # "idle"
  BY <1>1 DEF CarryEffect
<1>. QED BY <1>1, <1>2, FinishMoves DEF CarryEffect, Moves, OnWay, store, Types, CallTypes

(* What it does to the RAM histories. *)
LEMMA CarryCache ==
  ASSUME Types, NEW c \in Calls, Carry(c)
  PROVE  \/ /\ cache' = cache /\ excused' = excused
            /\ call'[c].pc \in OnWay => call[c].pc \in OnWay
         \/ /\ call[c].pc = "called" /\ call'[c].pc = "appended"
            /\ call[c].proc \in Procs
            /\ call[c].event \notin cache[call[c].proc]
            /\ cache' = [cache EXCEPT ![call[c].proc] = @ \cup {call[c].event}]
            /\ excused' = IF Over(call[c].proc) THEN excused \cup {call[c].event} ELSE excused
            /\ stored' = stored
<1>1. CarryEffect(c)
  BY Carries
<1>. QED BY <1>1, FinishMoves DEF CarryEffect, Moves, OnWay, store, Types, CallTypes

LEMMA ForgottenStep ==
  ASSUME Types, NothingForgotten, [Next]_vars PROVE NothingForgotten'
<1>1. ASSUME NEW c \in Calls, Carry(c) PROVE NothingForgotten'
  <2>. SUFFICES ASSUME NEW p \in Procs, NEW e \in cache'[p], e \notin stored' \cup failed'
                PROVE  \E d \in Calls :
                         /\ call'[d].event = e /\ call'[d].proc = p
                         /\ call'[d].pc \in OnWay
    BY DEF NothingForgotten, OnWay
  <2>1. CASE e \in cache[p]
    <3>1. PICK d \in Calls : call[d].event = e /\ call[d].proc = p /\ call[d].pc \in OnWay
      BY <1>1, <2>1, CarryFacts DEF NothingForgotten, OnWay
    <3>. QED BY <1>1, <3>1, CarryFacts DEF OnWay
  <2>2. CASE e \notin cache[p]
    <3>1. /\ call[c].pc = "called" /\ call'[c].pc = "appended"
          /\ call[c].proc = p /\ call[c].event = e
      BY <1>1, <2>2, CarryCache DEF Types, StoreTypes
    <3>. QED BY <1>1, <3>1, CarryFacts DEF OnWay
  <2>. QED BY <2>1, <2>2
<1>2. ASSUME NEW c \in Calls, NEW e \in Events, RecordTest(c, e) PROVE NothingForgotten'
  BY <1>2 DEF RecordTest, store, Types, NothingForgotten
<1>3. ASSUME NEW p \in Procs, ProcStep(p) PROVE NothingForgotten'
  BY <1>3 DEF ProcStep, Begin, Continue, Construct, BindProvider, Load, Replace, UnbindRecorder,
         UnbindProvider, WaitEnds, WaitTimesOut, Stop, store, Types, StoreTypes, NothingForgotten
<1>4. CASE LoopTurns \/ UNCHANGED vars
  BY <1>4 DEF LoopTurns, vars, store, NothingForgotten
<1>5. CASE Crash
  BY <1>5 DEF Crash, NothingForgotten
<1>. QED BY <1>1, <1>2, <1>3, <1>4, <1>5 DEF Next, ProcStep

-----------------------------------------------------------------------------
(* What the serving processor has, and nothing saved twice *)

(* A recording carried by a processor that has been replaced began before. *)
OldCalls ==
  \A c \in Calls :
    call[c].pc \notin {"idle", "tested"} /\ call[c].proc # newest => call[c].event \in excused

AllExcused == \A c \in Calls : call[c].pc # "idle" => call[c].event \in excused

Covers(p) ==
  /\ stored \subseteq cache[p] \cup excused
  /\ \A c \in Calls : call[c].pc \in OnWay => call[c].event \in cache[p] \cup excused

(* Until the newest processor is loaded every recording is excused; from   *)
(* then on, until its shutdown stops waiting, its RAM history covers the   *)
(* data store and all that is on the way there.                            *)
Serving ==
  \A p \in Procs : p = newest =>
    /\ phase[p] \in {"recording", "bound", "loading"} => AllExcused
    /\ phase[p] = "loading" => stored \subseteq snapshot \cup excused
    /\ phase[p] = "ready" => Covers(p)
    /\ phase[p] \in {"unbinding", "waiting"} => AllExcused \/ Covers(p)

(* Two recordings of one event are not both on their way. *)
Unique ==
  \A c, d \in Calls :
    /\ c # d /\ call[c].pc \in OnWay /\ call[d].pc \in OnWay
    /\ call[c].event = call[d].event
    => call[c].event \in excused

Served == OldCalls /\ Serving /\ Unique /\ SavedOnce

LEMMA CarryOldCalls ==
  ASSUME Types, Roles, OldCalls, NEW c \in Calls, Carry(c) PROVE OldCalls'
<1>1. newest' = newest /\ excused \subseteq excused'
  BY Carries, CarryCache DEF procs
<1>2. recorder # NoProc => recorder = newest
  BY DEF Roles
<1>3. call[c].pc = "tested" /\ call'[c].pc # "idle" => recorder # NoProc
  BY Carries, FinishMoves, NullsFresh DEF CarryEffect
<1>. QED BY <1>1, <1>2, <1>3, CarryFacts DEF OldCalls

LEMMA CarryServing ==
  ASSUME Types, OldCalls, Serving, NEW c \in Calls, Carry(c) PROVE Serving'
<1>1. UNCHANGED <<newest, phase, snapshot>>
  BY Carries DEF procs
<1>2. excused \subseteq excused' /\ \A p \in Procs : cache[p] \subseteq cache'[p]
  BY CarryCache DEF Types, StoreTypes
<1>3. AllExcused => AllExcused'
  BY <1>2, CarryFacts DEF AllExcused
<1>4. AllExcused => stored' \subseteq stored \cup excused'
  BY <1>2, CarryFacts DEF AllExcused
<1>5. ASSUME NEW p \in Procs, p = newest, Covers(p) PROVE Covers(p)'
  <2>1. stored' \subseteq cache'[p] \cup excused'
    BY <1>2, <1>5, CarryFacts DEF Covers
  <2>2. ASSUME NEW d \in Calls, call'[d].pc \in OnWay
        PROVE  call'[d].event \in cache'[p] \cup excused'
    <3>1. CASE call[d].pc \in OnWay
      BY <1>2, <1>5, <2>2, <3>1, CarryFacts DEF Covers, OnWay
    <3>2. CASE call[d].pc \notin OnWay
      <4>1. d = c /\ call[c].pc = "called" /\ call'[c].event = call[c].event
        BY <2>2, <3>2, CarryFacts DEF OnWay
      <4>2. CASE call[c].proc = p
        BY <2>2, <3>2, <4>1, <4>2, CarryCache DEF Types, StoreTypes
      <4>3. CASE call[c].proc # p
        BY <1>2, <1>5, <4>1, <4>3 DEF OldCalls
      <4>. QED BY <4>2, <4>3
    <3>. QED BY <3>1, <3>2
  <2>. QED BY <2>1, <2>2 DEF Covers
<1>. QED BY <1>1, <1>2, <1>3, <1>4, <1>5 DEF Serving

(* What is appended to a RAM history is new, unless it is excused. *)
LEMMA AppendedIsNew ==
  ASSUME Types, Roles, OldCalls, Serving, NEW c \in Calls, Carry(c),
         call[c].pc \notin OnWay, call'[c].pc \in OnWay, call[c].event \notin excused'
  PROVE  /\ call[c].event \notin stored
         /\ \A d \in Calls : call[d].pc \in OnWay => call[d].event # call[c].event
<1>. PICK p \in Procs : p = call[c].proc
  BY CarryCache DEF OnWay
<1>1. /\ call[c].pc = "called" /\ call[c].event \notin cache[p] /\ ~Over(p)
      /\ call[c].event \notin excused
  BY CarryCache DEF OnWay
<1>2. p = newest
  BY <1>1 DEF OldCalls
<1>3. ~AllExcused
  BY <1>1 DEF AllExcused
<1>4. phase[p] # "absent"
  BY <1>2 DEF Roles
<1>5. Covers(p)
  BY <1>1, <1>2, <1>3, <1>4 DEF Serving, Over, Types, ProcTypes, Phases
<1>. QED BY <1>1, <1>5 DEF Covers

LEMMA CarrySavedOnce ==
  ASSUME Types, Roles, Served, NEW c \in Calls, Carry(c) PROVE Unique' /\ SavedOnce'
<1>1. excused \subseteq excused'
  BY CarryCache
<1>2. Unique'
  BY <1>1, CarryFacts, AppendedIsNew DEF Served, Unique, OnWay
<1>3. ASSUME NEW d \in Calls, call'[d].pc \in OnWay, call'[d].event \notin excused'
      PROVE  call'[d].event \notin stored'
  <2>1. CASE call[d].pc \in OnWay
    <3>1. call'[d].event = call[d].event /\ call[d].event \notin stored
      BY <1>1, <1>3, <2>1, CarryFacts DEF Served, SavedOnce, OnWay
    <3>2. stored' # stored => d # c /\ call[c].pc \in OnWay
      BY <1>3, CarryFacts
    <3>3. stored' # stored => call[c].event # call[d].event
      BY <1>1, <1>3, <2>1, <3>1, <3>2 DEF Served, Unique
    <3>. QED BY <3>1, <3>3, CarryFacts
  <2>2. CASE call[d].pc \notin OnWay
    BY <1>3, <2>2, CarryFacts, CarryCache, AppendedIsNew DEF Served, OnWay
  <2>. QED BY <2>1, <2>2
<1>. QED BY <1>2, <1>3 DEF SavedOnce, OnWay

LEMMA TestServed ==
  ASSUME Types, Roles, Served, NEW c \in Calls, NEW e \in Events, RecordTest(c, e)
  PROVE  Served'
<1>1. /\ UNCHANGED <<stored, cache, phase, snapshot, newest, recorder>>
      /\ excused \subseteq excused'
      /\ call[c].pc = "idle" /\ call'[c].pc = "tested" /\ call'[c].event = e
      /\ \A d \in Calls \ {c} : call'[d] = call[d]
  BY DEF RecordTest, store, procs, Types, Idle, Call
<1>2. recorder = newest /\ recorder \in Procs
  BY DEF RecordTest, Roles, Types, ProcTypes
<1>3. phase[newest] \in {"recording", "bound", "loading"} => e \in excused'
  BY <1>2 DEF RecordTest
<1>4. OldCalls' /\ Unique' /\ SavedOnce'
  BY <1>1 DEF Served, OldCalls, Unique, SavedOnce, OnWay
<1>5. \A p \in Procs : Covers(p) => Covers(p)'
  BY <1>1 DEF Covers, OnWay
<1>6. AllExcused /\ e \in excused' => AllExcused'
  BY <1>1 DEF AllExcused
<1>7. phase[newest] \notin {"unbinding", "waiting"}
  BY <1>2 DEF Roles
<1>8. Serving'
  BY <1>1, <1>3, <1>5, <1>6, <1>7 DEF Served, Serving
<1>. QED BY <1>4, <1>8 DEF Served

LEMMA ProcServed ==
  ASSUME Types, Roles, Served, NEW p \in Procs, ProcStep(p) PROVE Served'
<1>1. UNCHANGED <<stored, call>> /\ excused \subseteq excused'
  BY DEF ProcStep, Begin, Continue, Construct, BindProvider, Load, Replace, UnbindRecorder,
         UnbindProvider, WaitEnds, WaitTimesOut, Stop, store
<1>2. Unique' /\ SavedOnce'
  BY <1>1 DEF Served, Unique, SavedOnce
<1>3. AllExcused => AllExcused'
  BY <1>1 DEF AllExcused
<1>4. CASE Construct(p)
  <2>1. AllExcused'
    BY <1>1, <1>4 DEF Construct, AllExcused, InFlight
  <2>2. OldCalls'
    BY <2>1 DEF AllExcused, OldCalls
  <2>3. phase'[p] = "recording" /\ newest' = p
    BY <1>4 DEF Construct, Enter, Types, ProcTypes
  <2>. QED BY <1>2, <2>1, <2>2, <2>3 DEF Served, Serving
<1>5. ASSUME newest' = newest PROVE OldCalls'
  BY <1>1, <1>5 DEF Served, OldCalls
<1>6. ASSUME ~Construct(p) PROVE Serving'
  <2>1. newest' = newest /\ \A q \in Procs \ {p} : phase'[q] = phase[q] /\ cache'[q] = cache[q]
    BY <1>6 DEF ProcStep, Begin, Continue, BindProvider, Load, Replace, UnbindRecorder, Enter,
           UnbindProvider, WaitEnds, WaitTimesOut, Stop, store, Types, ProcTypes, StoreTypes
  <2>2. ASSUME NEW q \in Procs, q = newest, q # p PROVE Serving'
    <3>1. phase[q] = "loading" => snapshot' = snapshot
      BY <1>6, <2>2 DEF ProcStep, Begin, Continue, BindProvider, Load, Replace, UnbindRecorder,
             UnbindProvider, WaitEnds, WaitTimesOut, Stop, Busy, BusyPhases, Roles
    <3>. QED BY <1>1, <1>3, <2>1, <2>2, <3>1 DEF Served, Serving, Covers
  <2>3. CASE newest = p /\ Load(p)
    BY <1>1, <1>3, <2>1, <2>3 DEF Served, Serving, Load, Enter, Types, ProcTypes
  <2>4. CASE newest = p /\ Replace(p)
    <3>1. AllExcused /\ stored \subseteq snapshot \cup excused
      BY <2>4 DEF Replace, Served, Serving
    <3>2. cache'[p] = snapshot /\ phase'[p] = "ready" /\ UNCHANGED excused
      BY <2>4 DEF Replace, Enter, Types, ProcTypes, StoreTypes
    <3>3. Covers(p)'
      BY <1>1, <3>1, <3>2 DEF Covers, AllExcused, OnWay
    <3>. QED BY <2>1, <2>4, <3>2, <3>3 DEF Serving
  <2>5. CASE newest = p /\ (BindProvider(p) \/ UnbindRecorder(p) \/ UnbindProvider(p))
    <3>1. cache' = cache /\ Covers(p) => Covers(p)'
      BY <1>1 DEF Covers
    <3>. QED BY <1>3, <2>1, <2>5, <3>1
         DEF BindProvider, UnbindRecorder, UnbindProvider, Enter, store, Types, ProcTypes,
             Served, Serving
  <2>6. CASE newest = p /\ (WaitEnds(p) \/ WaitTimesOut(p) \/ Stop(p))
    BY <2>1, <2>6 DEF WaitEnds, WaitTimesOut, Stop, Enter, Types, ProcTypes, Serving
  <2>7. newest \notin Procs => Serving'
    BY <2>1 DEF Serving
  <2>. QED BY <1>6, <2>2, <2>3, <2>4, <2>5, <2>6, <2>7 DEF ProcStep, Begin, Continue
<1>7. ASSUME ~Construct(p) PROVE newest' = newest
  BY <1>7 DEF ProcStep, Begin, Continue, BindProvider, Load, Replace, UnbindRecorder,
         UnbindProvider, WaitEnds, WaitTimesOut, Stop
<1>. QED BY <1>2, <1>4, <1>5, <1>6, <1>7 DEF Served

LEMMA ServedStep ==
  ASSUME Types, Roles, Served, [Next]_vars PROVE Served'
<1>1. ASSUME NEW c \in Calls, Carry(c) PROVE Served'
  BY <1>1, CarryOldCalls, CarryServing, CarrySavedOnce DEF Served
<1>2. ASSUME NEW c \in Calls, NEW e \in Events, RecordTest(c, e) PROVE Served'
  BY <1>2, TestServed
<1>3. ASSUME NEW p \in Procs, ProcStep(p) PROVE Served'
  BY <1>3, ProcServed
<1>4. CASE LoopTurns \/ UNCHANGED vars
  BY <1>4 DEF LoopTurns, vars, store, procs, Served, OldCalls, Serving, AllExcused, Covers,
         Unique, SavedOnce
<1>5. CASE Crash
  <2>1. \A c \in Calls : call'[c].pc = "idle"
    BY <1>5 DEF Crash, Idle
  <2>2. newest' \notin Procs
    BY <1>5, NullsFresh DEF Crash
  <2>. QED BY <2>1, <2>2 DEF Served, OldCalls, Serving, Unique, SavedOnce, OnWay
<1>. QED BY <1>1, <1>2, <1>3, <1>4, <1>5 DEF Next, ProcStep

-----------------------------------------------------------------------------
(* The theorems *)

IInv == Types /\ PendingCounts /\ DrainedIsSaved /\ Roles /\ NothingForgotten /\ Served

LEMMA IInvInit == Init => IInv
<1>. SUFFICES ASSUME Init PROVE IInv
  OBVIOUS
<1>1. \A c \in Calls : call[c].pc = "idle"
  BY DEF Init, Idle
<1>2. Roles /\ NothingForgotten
  BY NullsFresh DEF Init, Roles, NewestServes, BusyPhases, NothingForgotten
<1>3. Served
  BY <1>1, NullsFresh DEF Init, Served, OldCalls, Serving, Unique, SavedOnce, OnWay
<1>. QED BY <1>2, <1>3, TypesInit, PendingInit DEF IInv

LEMMA IInvAlways == Spec => []IInv
<1>1. IInv /\ [Next]_vars => IInv'
  BY TypesStep, PendingStep, RolesStep, ForgottenStep, ServedStep DEF IInv
<1>. QED BY IInvInit, <1>1, PTL DEF Spec

(* Every variable has its type; in particular the number of callbacks a    *)
(* processor waits for never falls below zero.                             *)
THEOREM Typed == Spec => []TypeOK
<1>1. IInv => TypeOK
  BY DEF IInv, Types, StoreTypes, ProcTypes, PendingCounts, TypeOK
<1>. QED BY <1>1, IInvAlways, PTL

(* An event the RAM history has is in the data store, on its way or failed. *)
THEOREM HistoryIsNotForgotten == Spec => []NothingForgotten
<1>1. IInv => NothingForgotten
  BY DEF IInv
<1>. QED BY <1>1, IInvAlways, PTL

(* The serving processor's RAM history has the data store's events, except *)
(* those recorded while it was loaded.                                     *)
THEOREM LoadedIsServed == Spec => []StoredIsServed
<1>1. IInv => StoredIsServed
  <2>. SUFFICES ASSUME IInv, NEW p \in Procs, phase[p] = "ready", recorder = p
                PROVE  stored \subseteq cache[p] \cup excused
    BY DEF StoredIsServed
  <2>1. p = newest
    BY NullsFresh DEF IInv, Roles
  <2>. QED BY <2>1 DEF IInv, Served, Serving, Covers
<1>. QED BY <1>1, IInvAlways, PTL

(* A shutdown that did not time out leaves no scheduled save behind.       *)
THEOREM DrainSaves == Spec => []DrainedIsSaved
<1>1. IInv => DrainedIsSaved
  BY DEF IInv
<1>. QED BY <1>1, IInvAlways, PTL

(* A predecessor's shutdown leaves recorder and provider to the successor. *)
THEOREM NewestKeepsItsRole == Spec => []NewestServes
<1>1. IInv => NewestServes
  BY DEF IInv, Roles
<1>. QED BY <1>1, IInvAlways, PTL

(* No event is on its way into the data store a second time.               *)
THEOREM NothingSavedTwice == Spec => []SavedOnce
<1>1. IInv => SavedOnce
  BY DEF IInv, Served
<1>. QED BY <1>1, IInvAlways, PTL

=============================================================================
