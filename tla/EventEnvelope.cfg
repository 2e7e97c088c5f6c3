CONSTANTS
  h = h
  H = H
  s = s
  sz = sz
  sp = sp
  Spaces = {sp}
  CaseFold <- Folds
  Absent = Absent
  NotObject = NotObject
  Words = {"", "uuid", "chat", "upsert", "note", "delete", "id", "object", "key", "user", "name", "haus", "flur"}
  Payloads <- MCPayloads
  Messages <- MCMessages
  Routes <- MCRoutes
  PersistentRooms <- MCRooms
  Senders = {"client", "server", "bus"}
SPECIFICATION Spec
INVARIANTS
  TypeOK
  ReplayIsLive
  RouterMatches
PROPERTY AcceptedIsRecorded
