SPECIFICATION MCSpec
CONSTANTS
  MaxSockets = 3
  MaxCalls = 2
  MaxVersion = 3
  MaxAttempts = 2
  MaxLosses = 1
  MaxPagesRead = 1
  Me = me
  Users = {me, bo}
  MaxTakes = 3
  a1 = a1
  a2 = a2
  here = here
  Resources = {a1, a2}
  Servers = {here}
  ServerOf <- OnlyServer
  SizeOf <- SmallSize
  MaxCacheSize = 2
  MaxQueue = 1
  MaxFaults = 2
  LastSeq = 4
  First = 2
  PageLimit = 1
  CatchUpPages = 1
  MaxPages = 2
  MaxChanges = 2
  Visits = 1
  Faults = 1
INVARIANTS TypesOK OneConnection ConnectionHonest ReactionsExact DiskBounded OlderInReach RecordsOnlyWhileHeld
PROPERTIES Reconnects ReactionsCatchUp RowConverges WindowConverges MobileRowConverges ReadReported
CHECK_DEADLOCK FALSE
