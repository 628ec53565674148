SPECIFICATION MCSpec
CONSTANTS
  Keys = {k1, k2, k3}
  Contents = {x1, x2}
  Callers = {c1, c2}
  Sizes = {1, 3}
  MaxEntries = 2
  MaxBytes = 3
  MaxRuns = 3
  MaxExpiries = 1
  Conflict = Conflict
  NoContent = NoContent
  Codes = {d1, d2}
  NoCode = NoCode
  Visitors = {v1, v2}
  Addresses = {i1}
  QueueSize = 1
  MaxFailedAttempts = 2
  MaxMails = 3
  MaxRestarts = 1
  Tasks = {t1, t2}
  Users = {u1, u2}
  NoUser = NoUser
  Broken = {t1}
  Schedules = {{1}, {1, 2}, {2}}
  Limit = 2
  LongAfter = 2
  MaxTime = 2
  MaxChanges = 2
  MaxFailures = 1
INVARIANTS WaitersHaveExecutor WithinLimits LoginOnce RemindedOnce
PROPERTIES FreshResponseKept RemindersHandled
CHECK_DEADLOCK FALSE
