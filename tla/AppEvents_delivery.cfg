SPECIFICATION Spec
CONSTANTS
  Apps = {a1}
  SystemApps = {}
  Writers = {w1, w2}
  ArchiveWriters = {}
  Conns = {c1, c2}
  SendBuffer = 1
  PageSize = 1
  MaxBatch = 2
  MaxId = 3
  MaxFailures = 1
  MaxAdminOps = 0
  ReloadMayFail = FALSE
  ReplayMayFail = FALSE
  Oversize = {}
  NoHolder = NoHolder
SYMMETRY Symmetry
INVARIANTS TypeOK NoEventLost ReceivedWithoutGaps
PROPERTIES KeepsPromise
