SPECIFICATION FamiliesSpec
CONSTANTS
  MaxPeople = 2
  MaxResidents = 2
  MaxMembers = 2
  Homes = {x}
  Kinds = {"participations"}
  Clerks = {q1}
  NoRow = NoRow
  Gone = Gone
INVARIANTS
  PastKept
