SPECIFICATION ScenarioSpec
CONSTANTS
  Items = {tent}
  Loans = {l1, l2}
  Requests = {r1, r2}
  Quantities = {0, 2}
  LendStatuses = {"", "pending", "overdue"}
  Transitions <- AllTransitions
  MaxInService = 2
  Failures = TRUE
  EditsCoverLoans = FALSE
  NoLoan = NoLoan
  MaxPeople = 3
  MaxResidents = 3
  MaxMembers = 4
  Homes = {x}
  Kinds = {"dues"}
  Clerks = {q1, q2}
  NoRow = NoRow
  Gone = Gone
SYMMETRY Symmetry
CHECK_DEADLOCK FALSE
INVARIANTS
  RegistersTypeOK
  StockBounds
  StockConserved
  FamiliesWhole
  PastKept
