----------------------------- MODULE HistoryLog -----------------------------
(***************************************************************************)
(* What the message history promises (docstrings of history.py): per room  *)
(* a log of events in the order they were recorded, each id at most once,  *)
(* from which only the oldest end is ever removed; a client that names the *)
(* last event it has is given what follows it, and everything retained if  *)
(* the log does not hold that event.  There are no sequence numbers and    *)
(* no index here.                                                          *)
(***************************************************************************)
EXTENDS Sequences, Integers

CONSTANTS Rooms, Ids, Dates

VARIABLES
  log,        \* log[r]: the retained events of room r, oldest first
  epoch       \* flips whenever the log is loaded anew or cleared

Event == [id : Ids, date : Dates]

IdsOf(l) == {l[i].id : i \in DOMAIN l}

(* Every id occurs at one place. *)
Distinct(l) == \A i, j \in DOMAIN l : l[i].id = l[j].id => i = j

Suffixes(l) == {SubSeq(l, k, Len(l)) : k \in 1..Len(l) + 1}

(* What is newer than the event with this id. *)
After(l, id) ==
  IF \E i \in DOMAIN l : l[i].id = id
  THEN SubSeq(l, (CHOOSE i \in DOMAIN l : l[i].id = id) + 1, Len(l))
  ELSE l

Init == log = [r \in Rooms |-> <<>>] /\ epoch = 0

(* Record one event in a room, and drop what is too old in any room.       *)
Record(r, e) ==
  /\ e.id \notin IdsOf(log[r])
  /\ log'[r] \in Suffixes(Append(log[r], e))
  /\ \A q \in Rooms \ {r} : log'[q] \in Suffixes(log[q])
  /\ UNCHANGED epoch

Drop ==
  /\ \A r \in Rooms : log'[r] \in Suffixes(log[r])
  /\ UNCHANGED epoch

(* Start again from what the data store returned, in the order of dates.   *)
Reload ==
  /\ \A r \in Rooms :
       /\ Distinct(log'[r])
       /\ \A i, j \in DOMAIN log'[r] : i < j => log'[r][i].date <= log'[r][j].date
  /\ epoch' = 1 - epoch

Next ==
  /\ log' \in [Rooms -> Seq(Event)]
  /\ \/ \E r \in Rooms, e \in Event : Record(r, e)
     \/ Drop
     \/ Reload

Spec == Init /\ [][Next]_<<log, epoch>>
=============================================================================
