CONSTANTS
  Clients = {c1, c2}
  Events = {e1, e2}
  Threads = {t1, t2}
  Server = Server
  NoClient = NoClient
  NoEvent = NoEvent
  NamedNone = e1
  Allowed = {"retry", "history_error", "server", "save_error"}
SPECIFICATION Spec
INVARIANTS
  TypeOK
  NoGap
  LastIsHorizon
SYMMETRY Symmetry
