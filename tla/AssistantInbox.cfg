SPECIFICATION FairSpec
CONSTANTS
  Gens = {g1, g2}
  Drainers = {d1, d2}
  MaxQueued = 2
  MaxCursor = 3
  MaxFailures = 2
  NoGen = NoGen
INVARIANTS HandledInOrder ForgottenWasHandled
PROPERTIES EventuallyConfirmed
