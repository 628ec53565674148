SPECIFICATION MCSpec
CONSTANTS
  Conversations = {c1, c2}
  NoConversation = NoConversation
  MaxVisits = 2
  MaxWaiting = 1
  MaxEdits = 2
  MaxFaults = 1
  MaxStarts = 3
  LastSeq = 4
  First = 3
  PageLimit = 1
  Retained = 2
  Revocations = 1
  Faults = 1
  Tasks = {task1, task2}
  NoTask = NoTask
  Missing = Missing
  StoredAtFirst = {{task1}, {task1, task2}}
  MaxVersions = 3
  MaxTurns = 2
  MaxUpdates = 1
  MaxLists = 1
  Folders = {"product", "design"}
  Documents = {"notes", "plan"}
  Root = "root"
  Nothing = Nothing
  InitialTree <- SmallTree
INVARIANTS TypesOK HistoryReachable DraftKept ClosedStaysClosed MicrophoneAccounted
PROPERTIES NewestStays OthersKept LandsWhereShown
CHECK_DEADLOCK FALSE
