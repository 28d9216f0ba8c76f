SPECIFICATION Spec
CONSTANTS
  Houses = {h1}
  Slugs = {a}
  Pins = {p1, p2}
  Requests = {r1, r2}
  MaxInService = 2
  MaxVersion = 2
  Asks <- MCAsks
  Failures = TRUE
  Chosen = Chosen
  Nobody = Nobody
SYMMETRY Symmetry
INVARIANTS
  TypeOK
  HouseWordHolds
  AccountWordHolds
  VersionTellsSticker
