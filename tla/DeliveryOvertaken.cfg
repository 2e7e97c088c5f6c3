CONSTANTS
  Clients = {c1, c2, c3}
  Events = {e1, e2}
  Threads = {t1, t2}
  Server = Server
  NoClient = NoClient
  NoEvent = NoEvent
  NamedNone = NoEvent
  Allowed = {"concurrent_sends"}
SPECIFICATION Spec
INVARIANT NoGap
SYMMETRY Symmetry
