SPECIFICATION PartSpec
CONSTANTS
  Users = {adi}
  Tokens = {t1, t2, t3}
  Requests = {r1, r2}
  MaxInService = 2
  Failures = TRUE
  NoToken = NoToken
  c1 = c1
  Clients = {c1, c2, c3}
  Proxies = {x}
  Headers <- MCHeaders
  Routes <- MCRoutes
  Capacity = 2
  Refill = 1
  IdleTimeout = 2
  SweepEvery = 2
  MaxEntries = 2
  NoBucket = NoBucket
  MaxNow = 4
  MaxEvictions = 1
  sampah = sampah
  ronda = ronda
  NumFunds = 2
  NumCats = 2
  Names = {sampah, ronda}
  Dues = {d1}
  DuesAmounts = {2}
  Entries <- AllEntries
  MaxAmount = 2
  MaxBook = 3
  Calls = {r1, r2}
  MaxUnderway = 2
  ReadErrors = TRUE
  NoDues = NoDues
SYMMETRY Alike
INVARIANTS
  SpentParents
  ExchangedOnce
  EndingsHold
  NobodyWronged
  NobodyFavoured
  OverdraftBounded
PROPERTIES
  SessionsStayOver
  DrawsCovered
