\* The retry limit of the code, one status of each kind the loops tell apart
SPECIFICATION FairSpec
CONSTANTS
  MaxRetries = 3
  Statuses = {200, 302, 400, 404, 408, 429, 500}
  RetryAfter = {0, 12}
  MaxPieces = 2
INVARIANT TypeOK
INVARIANT OnlyTheLastBody
INVARIANT GivesUpAfterAllRetries
INVARIANT BackOff
PROPERTY RequestReturns
CHECK_DEADLOCK FALSE
