SPECIFICATION Spec
CONSTANTS
  Users = {adi}
  Tokens = {t1, t2}
  Requests = {r1, r2}
  MaxInService = 2
  Failures = TRUE
  NoToken = NoToken
SYMMETRY UsersAlike
INVARIANTS
  NoSurvivors
