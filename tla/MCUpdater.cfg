SPECIFICATION FairSpec
CONSTANTS
  v1 = v1
  v2 = v2
  v1bis = v1bis
  spoilt = spoilt
  start = start
  tick = tick
  button = button
  Callers = {start, tick, button}
  Start = start
  Arts = {v1, v2, v1bis, spoilt}
  Junk = {spoilt}
  Declares <- MCDeclares
  First = v1
  None = None
  MaxAttempts = 2
  Tries = 2
  MaxPublished = 2
  MaxFaults = 1
INVARIANTS
  TypeOK
  BinaryInPlace
  InstalledIsTrue
  RoundsBounded
PROPERTIES
  EverySwapClimbs
  ProperReleaseLands
CHECK_DEADLOCK FALSE
