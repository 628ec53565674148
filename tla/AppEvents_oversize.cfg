SPECIFICATION Spec
CONSTANTS
  Apps = {a1}
  SystemApps = {}
  Writers = {w1}
  ArchiveWriters = {}
  Conns = {c1}
  SendBuffer = 1
  PageSize = 1
  MaxBatch = 1
  MaxId = 2
  MaxFailures = 0
  MaxAdminOps = 0
  ReloadMayFail = FALSE
  ReplayMayFail = FALSE
  Oversize = {1}
  NoHolder = NoHolder
SYMMETRY Symmetry
INVARIANTS NoEventLost
CHECK_DEADLOCK FALSE
