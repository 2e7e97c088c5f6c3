CONSTANTS
  Users = {u1, u2}
  Sids = {s1, s2, s3}
  Rooms = {r1}
  Threads = {t1, t2}
  NoSid = NoSid
  NoUser = NoUser
  NoClient = NoClient
  NoRoom = NoRoom
  Allowed = {"pipelining", "early_loss", "evict_error", "shutdown"}
SPECIFICATION Spec
INVARIANT NoHiddenReceiver
SYMMETRY Symmetry
CHECK_DEADLOCK FALSE
