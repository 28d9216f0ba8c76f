SPECIFICATION TabSpec
CONSTANTS
  a1 = a1
  a2 = a2
  s1 = s1
  s2 = s2
  Sessions = {s1, s2}
  Steers = {s2}
  Agents = {a1}
  Lanes <- AnyLane
  MaxPosts = 0
  MaxFaults = 0
  MaxClicks = 0
  MaxReloads = 0
CHECK_DEADLOCK FALSE
PROPERTY GoNotAbandoned
