CONSTANTS
  Clients = {c1, c2}
  Events = {e1, e2}
  Threads = {t1, t2, t3}
  Server = Server
  NoClient = NoClient
  NoEvent = NoEvent
  NamedNone = NoEvent
  Allowed = {"concurrent_sends", "retry", "no_recorder", "server"}
SPECIFICATION Spec
INVARIANT FirstJoinComplete
CONSTRAINT NobodyResumes
SYMMETRY Symmetry
