CONSTANTS
  Rooms = {r1, r2}
  Ids = {e1, e2}
  NoSeq = NoSeq
  MaxAge = 1
  MaxTime = 3
  MaxDelay = 2
  MaxLoad = 2
  Spring = 1
  Autumn = 2
  Shift = 1
SPECIFICATION Spec
INVARIANTS
  TypeOK
  IndexMatches
  NothingLostEarly
  NeverOlderInOrder
  AnswerIsRest
PROPERTY ImplementsLog
SYMMETRY Symmetry
