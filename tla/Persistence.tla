---------------------------- MODULE Persistence -----------------------------
(***************************************************************************)
(* The way of an event of a persistent room from service.record_event()    *)
(* through the processor's RAM history to the data store, while processors *)
(* are constructed, loaded and shut down, the event loop starts and stops, *)
(* and the process dies (processor.py, service.py).                        *)
(*                                                                         *)
(* The service holds one recorder and one history provider; the processor  *)
(* constructed last replaces the one before it.  A recording is made by    *)
(* the thread of a Socket.IO handler, the message bus or the UI, up to     *)
(* call_soon_threadsafe(); from there the event loop carries it.  Loop     *)
(* callbacks may overlap here, which only adds behaviours.                 *)
(*                                                                         *)
(* The data store and the framework that constructs, loads and shuts down  *)
(* the processors, one at a time, are external.  Expiry is the subject of  *)
(* MessageHistory, the disconnection of clients at shutdown of             *)
(* RoomSessions.                                                           *)
(***************************************************************************)
EXTENDS Naturals, FiniteSets

CONSTANTS
  Procs, Events,
  Calls,           \* recordings at a time; a finished one is used again
  NoProc, NoEvent

ASSUME NullsFresh == NoProc \notin Procs /\ NoEvent \notin Events
ASSUME CallsFinite == IsFiniteSet(Calls)

VARIABLES
  stored,       \* events in the data store
  cache,        \* cache[p]: the RAM history of processor p
  pending,      \* pending[p]: _pending_persist_callbacks
  phase,        \* phase[p]: where p is in its life
  snapshot,     \* what get_records() returned to the processor that is loading
  recorder,     \* service._event_recorder_owner
  provider,     \* service._history_provider_owner
  loopUp,       \* loop.is_running()
  call,         \* call[c]: a recording
  newest,       \* history variable: the processor constructed last
  timedOut,     \* history variable: processors whose shutdown stopped waiting
  failed,       \* history variable: events that saving or scheduling failed for
  excused       \* history variable: events recorded by a processor before it
                \* was loaded, by its predecessor meanwhile, or after shutdown

store == <<stored, cache, failed>>
procs == <<phase, snapshot, recorder, provider, newest, timedOut>>
vars == <<store, pending, procs, loopUp, call, excused>>

-----------------------------------------------------------------------------
Phases == {"absent", "recording", "bound", "loading", "ready",
           "unbinding", "waiting", "drained", "stopped"}

(* Nothing else is constructed, loaded or shut down meanwhile. *)
Busy == \E p \in Procs : phase[p] \in {"recording", "loading", "unbinding", "waiting", "drained"}

Over(p) == phase[p] \in {"drained", "stopped"}

CallPcs == {"idle", "tested", "called", "appended", "direct", "counted", "queued", "saved"}

Scheduled == {"counted", "queued", "saved"}

Call == [pc : CallPcs, event : Events \cup {NoEvent}, proc : Procs \cup {NoProc}, late : BOOLEAN]

Idle == [pc |-> "idle", event |-> NoEvent, proc |-> NoProc, late |-> FALSE]

InFlight == {call[c].event : c \in {d \in Calls : call[d].pc # "idle"}}

Goto(c, label) == call' = [call EXCEPT ![c].pc = label]

Finish(c) == call' = [call EXCEPT ![c] = Idle]

-----------------------------------------------------------------------------
Init ==
  /\ stored = {} /\ failed = {} /\ excused = {}
  /\ cache = [p \in Procs |-> {}]
  /\ pending = [p \in Procs |-> 0]
  /\ phase = [p \in Procs |-> "absent"]
  /\ snapshot = {}
  /\ recorder = NoProc /\ provider = NoProc /\ newest = NoProc
  /\ timedOut = {}
  /\ loopUp \in BOOLEAN
  /\ call = [c \in Calls |-> Idle]

-----------------------------------------------------------------------------
(* Recording *)

(* service.record_event: "if self._event_recorder is None: return False".  *)
RecordTest(c, e) ==
  /\ call[c].pc = "idle"
  /\ recorder # NoProc
  /\ call' = [call EXCEPT ![c] = [Idle EXCEPT !.pc = "tested", !.event = e]]
  /\ excused' = IF phase[recorder] # "ready" THEN excused \cup {e} ELSE excused
  /\ UNCHANGED <<store, pending, procs, loopUp>>

(* The attribute is read again for the call.  If it is None by now, the    *)
(* recording ends with a TypeError.                                        *)
RecordCall(c) ==
  /\ call[c].pc = "tested"
  /\ \/ /\ recorder # NoProc
        /\ call' = [call EXCEPT ![c] = [@ EXCEPT !.pc = "called", !.proc = recorder]]
     \/ /\ recorder = NoProc
        /\ Finish(c)
  /\ UNCHANGED <<store, pending, procs, loopUp, excused>>

(* Mutant: the RAM history is not asked. *)
AppendAlways(c) ==
  LET p == call[c].proc  e == call[c].event
  IN /\ call[c].pc = "called"
     /\ cache' = [cache EXCEPT ![p] = @ \cup {e}]
     /\ excused' = IF Over(p) THEN excused \cup {e} ELSE excused
     /\ Goto(c, "appended")
     /\ UNCHANGED <<stored, failed, pending, procs, loopUp>>

(* history.append; an event it has is a retry, and nothing more is done.   *)
Append(c) ==
  LET p == call[c].proc  e == call[c].event
  IN /\ call[c].pc = "called"
     /\ \/ /\ e \in cache[p]
           /\ Finish(c)
           /\ UNCHANGED <<cache, excused>>
        \/ /\ e \notin cache[p]
           /\ cache' = [cache EXCEPT ![p] = @ \cup {e}]
           /\ excused' = IF Over(p) THEN excused \cup {e} ELSE excused
           /\ Goto(c, "appended")
     /\ UNCHANGED <<stored, failed, pending, procs, loopUp>>

(* Mutant: the callback is not counted. *)
ScheduleUncounted(c) ==
  LET p == call[c].proc
  IN /\ call[c].pc = "appended"
     /\ call' = [call EXCEPT ![c] = [@ EXCEPT !.pc = IF loopUp THEN "counted" ELSE "direct",
                                              !.late = loopUp /\ Over(p)]]
     /\ UNCHANGED <<store, pending, procs, loopUp, excused>>

(* With a running loop the callback is counted before it is scheduled.     *)
Schedule(c) ==
  LET p == call[c].proc
  IN /\ call[c].pc = "appended"
     /\ \/ /\ loopUp
           /\ pending' = [pending EXCEPT ![p] = @ + 1]
           /\ call' = [call EXCEPT ![c] = [@ EXCEPT !.pc = "counted", !.late = Over(p)]]
        \/ /\ ~loopUp
           /\ Goto(c, "direct")
           /\ UNCHANGED pending
     /\ UNCHANGED <<store, procs, loopUp, excused>>

Enqueue(c) ==
  /\ call[c].pc = "counted"
  /\ Goto(c, "queued")
  /\ UNCHANGED <<store, pending, procs, loopUp, excused>>

(* Mutant: the exception is not noticed. *)
EnqueueErrorIgnored(c) ==
  LET p == call[c].proc
  IN /\ call[c].pc = "counted"
     /\ pending' = [pending EXCEPT ![p] = @ - 1]
     /\ Finish(c)
     /\ UNCHANGED <<store, procs, loopUp, excused>>

(* call_soon_threadsafe raises: the loop was closed since it was asked.    *)
EnqueueError(c) ==
  LET p == call[c].proc
  IN /\ call[c].pc = "counted"
     /\ pending' = [pending EXCEPT ![p] = @ - 1]
     /\ failed' = failed \cup {call[c].event}
     /\ Finish(c)
     /\ UNCHANGED <<stored, cache, procs, loopUp, excused>>

(* Mutant: a failed save ends the callback without its finally block. *)
SaveWithoutFinally(c) ==
  LET e == call[c].event
  IN /\ \/ /\ stored' = stored \cup {e} /\ failed' = failed
           /\ \/ call[c].pc = "direct" /\ Finish(c)
              \/ call[c].pc = "queued" /\ loopUp /\ Goto(c, "saved")
        \/ /\ stored' = stored /\ failed' = failed \cup {e}
           /\ call[c].pc = "direct" \/ (call[c].pc = "queued" /\ loopUp)
           /\ Finish(c)
     /\ UNCHANGED <<cache, pending, procs, loopUp, excused>>

(* save_data, by the recording thread itself or by the loop; it may raise. *)
Save(c) ==
  LET e == call[c].event
  IN /\ \/ stored' = stored \cup {e} /\ failed' = failed
        \/ stored' = stored /\ failed' = failed \cup {e}
     /\ \/ call[c].pc = "direct" /\ Finish(c)
        \/ call[c].pc = "queued" /\ loopUp /\ Goto(c, "saved")
     /\ UNCHANGED <<cache, pending, procs, loopUp, excused>>

(* The finally block of the callback. *)
Finally(c) ==
  LET p == call[c].proc
  IN /\ call[c].pc = "saved"
     /\ pending' = [pending EXCEPT ![p] = @ - 1]
     /\ Finish(c)
     /\ UNCHANGED <<store, procs, loopUp, excused>>

-----------------------------------------------------------------------------
(* The life of a processor *)

Enter(p, label) == phase' = [phase EXCEPT ![p] = label]

(* __init__ up to bind_event_recorder. *)
Construct(p) ==
  /\ phase[p] = "absent" /\ ~Busy
  /\ Enter(p, "recording")
  /\ recorder' = p /\ newest' = p
  /\ excused' = excused \cup InFlight
  /\ UNCHANGED <<store, pending, snapshot, provider, timedOut, loopUp, call>>

BindProvider(p) ==
  /\ phase[p] = "recording"
  /\ Enter(p, "bound")
  /\ provider' = p
  /\ UNCHANGED <<store, pending, snapshot, recorder, newest, timedOut, loopUp, call, excused>>

(* init_current_vals: get_records ... *)
Load(p) ==
  /\ phase[p] = "bound" /\ ~Busy
  /\ Enter(p, "loading")
  /\ snapshot' = stored
  /\ UNCHANGED <<store, pending, recorder, provider, newest, timedOut, loopUp, call, excused>>

(* Mutant: the RAM history is only cleared. *)
ReplaceByNothing(p) ==
  /\ phase[p] = "loading"
  /\ Enter(p, "ready")
  /\ cache' = [cache EXCEPT ![p] = {}]
  /\ snapshot' = {}
  /\ UNCHANGED <<stored, failed, pending, recorder, provider, newest, timedOut, loopUp, call,
                 excused>>

(* ... and history.replace, which starts with a clear. *)
Replace(p) ==
  /\ phase[p] = "loading"
  /\ Enter(p, "ready")
  /\ cache' = [cache EXCEPT ![p] = snapshot]
  /\ snapshot' = {}
  /\ UNCHANGED <<stored, failed, pending, recorder, provider, newest, timedOut, loopUp, call,
                 excused>>

(* Mutant: whoever owns it. *)
UnbindAnyRecorder(p) ==
  /\ phase[p] \in {"bound", "ready"} /\ ~Busy
  /\ Enter(p, "unbinding")
  /\ recorder' = NoProc
  /\ UNCHANGED <<store, pending, snapshot, provider, newest, timedOut, loopUp, call, excused>>

UnbindRecorder(p) ==
  /\ phase[p] \in {"bound", "ready"} /\ ~Busy
  /\ Enter(p, "unbinding")
  /\ recorder' = IF recorder = p THEN NoProc ELSE recorder
  /\ UNCHANGED <<store, pending, snapshot, provider, newest, timedOut, loopUp, call, excused>>

UnbindProvider(p) ==
  /\ phase[p] = "unbinding"
  /\ Enter(p, "waiting")
  /\ provider' = IF provider = p THEN NoProc ELSE provider
  /\ UNCHANGED <<store, pending, snapshot, recorder, newest, timedOut, loopUp, call, excused>>

(* _wait_for_pending_persist_callbacks *)
WaitEnds(p) ==
  /\ phase[p] = "waiting"
  /\ pending[p] = 0
  /\ Enter(p, "drained")
  /\ UNCHANGED <<store, pending, snapshot, recorder, provider, newest, timedOut, loopUp, call,
                 excused>>

WaitTimesOut(p) ==
  /\ phase[p] = "waiting"
  /\ pending[p] > 0
  /\ Enter(p, "drained")
  /\ timedOut' = timedOut \cup {p}
  /\ UNCHANGED <<store, pending, snapshot, recorder, provider, newest, loopUp, call, excused>>

(* history.clear and the rest of shutdown(). *)
Stop(p) ==
  /\ phase[p] = "drained"
  /\ Enter(p, "stopped")
  /\ cache' = [cache EXCEPT ![p] = {}]
  /\ UNCHANGED <<stored, failed, pending, snapshot, recorder, provider, newest, timedOut, loopUp,
                 call, excused>>

-----------------------------------------------------------------------------
(* External: the loop, and the end of the process. *)

LoopTurns ==
  /\ loopUp' = ~loopUp
  /\ UNCHANGED <<store, pending, procs, call, excused>>

Crash ==
  /\ cache' = [p \in Procs |-> {}]
  /\ pending' = [p \in Procs |-> 0]
  /\ phase' = [p \in Procs |-> "absent"]
  /\ snapshot' = {}
  /\ recorder' = NoProc /\ provider' = NoProc /\ newest' = NoProc
  /\ timedOut' = {} /\ failed' = {} /\ excused' = {}
  /\ loopUp' = FALSE
  /\ call' = [c \in Calls |-> Idle]
  /\ UNCHANGED stored

Carry(c) ==
  \/ RecordCall(c) \/ Append(c) \/ Schedule(c) \/ Enqueue(c) \/ EnqueueError(c)
  \/ Save(c) \/ Finally(c)

Begin(p) == Construct(p) \/ Load(p) \/ UnbindRecorder(p)

Continue(p) == BindProvider(p) \/ Replace(p) \/ UnbindProvider(p) \/ WaitEnds(p) \/ Stop(p)

Next ==
  \/ \E c \in Calls : Carry(c) \/ \E e \in Events : RecordTest(c, e)
  \/ \E p \in Procs : Begin(p) \/ Continue(p) \/ WaitTimesOut(p)
  \/ LoopTurns \/ Crash

(* Threads go on, the loop runs its callbacks while it is up, and what the *)
(* framework has begun with a processor it ends.  The five seconds of the  *)
(* wait may be as long as they like.                                       *)
Fairness ==
  /\ \A c \in Calls : WF_vars(Carry(c))
  /\ \A p \in Procs : WF_vars(Continue(p))

Spec == Init /\ [][Next]_vars /\ Fairness

-----------------------------------------------------------------------------
(* Properties *)

TypeOK ==
  /\ stored \subseteq Events /\ failed \subseteq Events /\ excused \subseteq Events
  /\ cache \in [Procs -> SUBSET Events]
  /\ pending \in [Procs -> Nat]
  /\ phase \in [Procs -> Phases]
  /\ snapshot \subseteq Events
  /\ {recorder, provider, newest} \subseteq Procs \cup {NoProc}
  /\ timedOut \subseteq Procs
  /\ loopUp \in BOOLEAN
  /\ call \in [Calls -> Call]

(* An event a client may be given from the RAM history is in the data      *)
(* store, or the recording that put it there is still under way in the     *)
(* same processor, or saving or scheduling it failed (processor.py:639-     *)
(* 722).  So of what clients were given a crash costs no more than that.   *)
(* An event that no RAM history took is not spoken of (see RecordCall).    *)
NothingForgotten ==
  \A p \in Procs : \A e \in cache[p] :
    \/ e \in stored \cup failed
    \/ \E c \in Calls :
         /\ call[c].event = e /\ call[c].proc = p
         /\ call[c].pc \in {"appended", "direct", "counted", "queued"}

(* The RAM history of the processor that serves the clients has every      *)
(* event of the data store, except those recorded while it was loaded.     *)
StoredIsServed ==
  \A p \in Procs : phase[p] = "ready" /\ recorder = p => stored \subseteq cache[p] \cup excused

(* README.md:125-147: the data store is loaded into the RAM history, every *)
(* new event is added to it, and the server answers from it.               *)
HistoryIsComplete ==
  \A p \in Procs : phase[p] = "ready" /\ provider = p => stored \subseteq cache[p]

(* When shutdown's wait ends in time, whatever was scheduled before has    *)
(* been saved or has failed (processor.py:853): a callback that runs later *)
(* was scheduled by a recording that had got hold of the recorder before   *)
(* it was unbound.                                                         *)
DrainedIsSaved ==
  \A p \in Procs : Over(p) /\ p \notin timedOut =>
    \A c \in Calls : call[c].proc = p /\ call[c].pc \in Scheduled => call[c].late

(* A processor that is shut down does not take recorder or provider away   *)
(* from its successor (service.py:411, 446).                               *)
NewestServes ==
  \A p \in Procs : p = newest =>
    /\ phase[p] \in {"recording", "bound", "loading", "ready"} => recorder = p
    /\ phase[p] \in {"bound", "loading", "ready"} => provider = p

(* Nothing that is in the data store is on its way there again: a retry    *)
(* may come to another processor than the first attempt, or after a crash  *)
(* (processor.py:651-660).                                                 *)
SavedOnce ==
  \A c \in Calls :
    call[c].pc \in {"appended", "direct", "counted", "queued"} =>
      call[c].event \notin stored \ excused

(* The wait of a shutdown needs no timeout when the loop goes on running:  *)
(* after the recorder is unbound no new callbacks keep it waiting.         *)
ShutdownDrains ==
  \A p \in Procs : <>[]loopUp => (phase[p] = "waiting" ~> phase[p] # "waiting")
=============================================================================
