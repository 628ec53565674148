SPECIFICATION Spec
CONSTANTS
  Apps = {a1, a2}
  SystemApps = {a1}
  Writers = {w2}
  ArchiveWriters = {w2}
  Conns = {c1, c2}
  SendBuffer = 1
  PageSize = 1
  MaxBatch = 1
  MaxId = 1
  MaxFailures = 0
  MaxAdminOps = 2
  ReloadMayFail = FALSE
  ReplayMayFail = FALSE
  Oversize = {}
  NoHolder = NoHolder
SYMMETRY Symmetry
INVARIANTS NoStaleConnection DeletedLeavesNothing
CHECK_DEADLOCK FALSE
