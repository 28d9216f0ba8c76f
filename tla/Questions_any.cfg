SPECIFICATION HandsSpec
CONSTANTS
  w2 = w2
  Windows = {w1, w2}
  MaxHands = 3
  FollowUps = {2}
  MaxMoves = 5
  MaxRetries = 1
  NoPick = NoPick
  HalfWritten = HalfWritten
  NoHand = NoHand
CHECK_DEADLOCK FALSE
INVARIANTS
  AnswerOfTheHand
PROPERTIES
  VerdictsTrue
  NotUnderThePage
  AbandonedCloses
