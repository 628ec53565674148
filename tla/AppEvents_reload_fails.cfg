SPECIFICATION Spec
CONSTANTS
  Apps = {a1}
  SystemApps = {}
  Writers = {w1, w2}
  ArchiveWriters = {}
  Conns = {c1, c2}
  SendBuffer = 1
  PageSize = 1
  MaxBatch = 1
  MaxId = 1
  MaxFailures = 0
  MaxAdminOps = 1
  ReloadMayFail = TRUE
  ReplayMayFail = FALSE
  Oversize = {}
  NoHolder = NoHolder
SYMMETRY Symmetry
INVARIANTS NoStaleConnection
