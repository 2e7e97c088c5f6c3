CONSTANTS
  Users = {u1, u2, u3}
  Sids = {s1, s2, s3}
  Rooms = {r1, r2}
  NoSid = NoSid
  NoUser = NoUser
  NoClient = NoClient
SPECIFICATION Spec
INVARIANTS
  TypeOK
  IndexAgrees
  OfflineIsEmpty
  QueriesAgree
PROPERTY ImplementsPresence
