SPECIFICATION SpecRemote
CONSTANTS
  MaxKey = 4
  MaxLimit = 2
  MaxLength = 2
  MaxFields = 2
  MaxMade = 3
  Word = 256
  Limits <- MCLimits
  RangeLimits = {0, 2}
INVARIANTS
  RefusedIsNotDone
  AnswersTell
  PageIsAsAsked
  FinHidesAtMostOne
  RemoteAsLocal
CHECK_DEADLOCK FALSE
