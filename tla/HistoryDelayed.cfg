CONSTANTS
  Rooms = {r1}
  Ids = {e1, e2, e3}
  NoSeq = NoSeq
  MaxAge = 2
  MaxTime = 4
  MaxDelay = 1
  MaxLoad = 2
  Spring = 0
  Autumn = 0
  Shift = 0
SPECIFICATION Spec
INVARIANT NeverOlder
SYMMETRY Symmetry
