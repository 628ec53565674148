SPECIFICATION MCSpec
CONSTANTS
  Keys = {r1, r2}
  Contents = {own, other}
  Own = own
  Callers = {c1, c2, f}
  Foreign = {f}
  Sizes = {1}
  MaxEntries = 1
  MaxBytes = 1
  MaxRuns = 2
  MaxExpiries = 1
  MaxRetries = 1
  MaxFailures = 1
  Conflict = Conflict
  NoContent = NoContent
  NoConn = NoConn
  Conversations = {v1, v2}
  Topics = {v1}
  Senders = {u1, u2}
  Sessions = {s1, s2}
  Retirers = {g1, g2}
  MaxSessions = 1
  MaxWatermarks = 1
  MaxTurns = 2
  MaxPosts = 3
  MaxRepeats = 1
  NoSession = NoSession
  NoSender = NoSender
SYMMETRY Symmetry
INVARIANTS InTurn ResultIsOwn AtMostOncePerRequest
