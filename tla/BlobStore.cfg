CONSTANTS
  Blobs = {b1, b2}
  Workers = {w1, w2}
  NoBlob = NoBlob
  NoFile = NoFile
  MaxSize = 1
  Allowed = {"cut_off", "lost_answer", "disk_error", "read_error"}
SPECIFICATION Spec
INVARIANTS
  TypeOK
  IssuedIsKept
  DeletedIsGone
  NoLitter
PROPERTY ImplementsBlobSpec
SYMMETRY Symmetry
