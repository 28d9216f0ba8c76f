SPECIFICATION ScenarioSpec
CONSTANTS
  a1 = a1
  a2 = a2
  s1 = s1
  s2 = s2
  Sessions = {s1, s2}
  Steers = {s2}
  Agents = {a1, a2}
  Lanes <- AnyLane
  MaxPosts = 3
  MaxFaults = 1
  MaxClicks = 1
  MaxReloads = 1
CHECK_DEADLOCK FALSE
INVARIANTS
  LiveTypeOK
  NoMissedWakeup
  OneScaffold
  DecisionRecoverable
  HandledStaysClosed
  AcceptAccounted
PROPERTIES
  NoVariantsAfterDecision
  DecisionAnswered
  DecisionSettles
  GenerationShown
