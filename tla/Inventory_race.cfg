SPECIFICATION WatchedSpec
CONSTANTS
  Items = {tent}
  Loans = {l1, l2}
  Requests = {r1, r2}
  Quantities = {0}
  LendStatuses = {"borrowed"}
  Transitions <- NoTransition
  MaxInService = 2
  Failures = FALSE
  EditsCoverLoans = TRUE
  NoLoan = NoLoan
SYMMETRY Symmetry
CHECK_DEADLOCK FALSE
INVARIANTS
  NeverOverLent
