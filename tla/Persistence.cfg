CONSTANTS
  Procs = {p1, p2}
  Events = {e1}
  Calls = {c1, c2}
  NoProc = NoProc
  NoEvent = NoEvent
SPECIFICATION Spec
INVARIANTS
  TypeOK
  NothingForgotten
  
  DrainedIsSaved
  NewestServes
  
PROPERTY ShutdownDrains
