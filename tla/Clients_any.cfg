SPECIFICATION ScenarioSpec
CONSTANTS
  Tabs = {a, b}
  MaxTokens = 3
  MaxWaiting = 1
  Loss = TRUE
  Hasty = TRUE
  Switching = TRUE
  p1 = p1
  p2 = p2
  r1 = r1
  r2 = r2
  r3 = r3
  f1 = f1
  f2 = f2
  Pages = {p1, p2}
  Refs = {r1, r2, r3}
  PageOf <- OnPage
  FileOf <- InFile
  Applies = {a1, a2}
  a1 = a1
  a2 = a2
  ChunkSize = 1
  MaxAttempts = 1
  MaxSaves = 2
  MaxApplies = 2
  MaxCrashes = 1
  s1 = s1
  v1 = v1
  Sessions = {s1, s2}
  Decisions = {v1, v2}
  NumRuns = 3
  MaxTries = 1
  MaxFaults = 1
  Undecided = Undecided
  Torn = Torn
  NoLock = NoLock
CHECK_DEADLOCK FALSE
INVARIANTS
  NoAlarmInOneTab
  EditKept
  SharedAfterCrossing
  AnswersTrue
PROPERTIES
  QueueSettled
  StaysLoggedOut
  ApplySettles
  DecisionsAtomic
  AppliesAtomic
