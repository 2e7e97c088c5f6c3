CONSTANTS
  Procs = {p1}
  Events = {e1, e2}
  Calls = {c1, c2}
  NoProc = NoProc
  NoEvent = NoEvent
SPECIFICATION Spec
INVARIANT HistoryIsComplete
