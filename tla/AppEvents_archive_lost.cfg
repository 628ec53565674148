SPECIFICATION Spec
CONSTANTS
  Apps = {a1}
  SystemApps = {}
  Writers = {w1, w2}
  ArchiveWriters = {w2}
  Conns = {c1, c2}
  SendBuffer = 1
  PageSize = 1
  MaxBatch = 1
  MaxId = 2
  MaxFailures = 0
  MaxAdminOps = 0
  ReloadMayFail = FALSE
  ReplayMayFail = FALSE
  Oversize = {}
  NoHolder = NoHolder
SYMMETRY Symmetry
INVARIANTS NoEventLost
CHECK_DEADLOCK FALSE
