SPECIFICATION FairSpec
CONSTANTS
  Apps = {a1}
  SystemApps = {}
  Writers = {w1}
  ArchiveWriters = {}
  Conns = {c1}
  SendBuffer = 1
  PageSize = 1
  MaxBatch = 1
  MaxId = 2
  MaxFailures = 1
  MaxAdminOps = 1
  ReloadMayFail = FALSE
  ReplayMayFail = TRUE
  Oversize = {}
  NoHolder = NoHolder
PROPERTIES EventuallyAcknowledged
