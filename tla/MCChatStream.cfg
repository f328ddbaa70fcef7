SPECIFICATION FairSpec
CONSTANTS
  r1 = r1
  r2 = r2
  conv = conv
  Reqs = {r1, r2}
  ConvOf <- MCConvOf
  Engines = {e1}
  PrefillE = pf
  Slots = {s1}
  MaxChunks = 1
  None = None
INVARIANTS GivenBackOnce ClientIsTold
PROPERTIES EveryChatEnds
CHECK_DEADLOCK FALSE
